---- MODULE Spec2Model ----
(***************************************************************************)
(* Batch generation orchestrator of qr-gen: the foreground window          *)
(* (ModernQRGenerator), the background worker (QRWorker.run) and the       *)
(* queued signal channel between them.                                     *)
(*                                                                         *)
(* Text that the code inspects character by character (input lines,        *)
(* payloads) is a sequence of one-character strings; text that the code    *)
(* only concatenates (prefix, label, file names) is a string.              *)
(***************************************************************************)
EXTENDS Integers, Sequences, FiniteSets, TLC

\* ------------------------------------------------------------------ bounds
MaxLines == 2      \* lines in the input file
MaxJobs == 2       \* generation jobs started in one behaviour
MaxEdits == 1      \* foreground setting changes in one behaviour
MaxTotal == 60     \* record count of the jobs of SpecProgress
MaxSuffix == 2     \* characters after the prefix of a payload of SpecInput
MaxTemplates == 2  \* stored custom templates of SpecResolve
MaxDialogs == 2    \* template dialogs submitted in one behaviour of SpecTemplates
MaxExtent == 12    \* scanlines of the gradients of SpecGradient
MaxPixels == 4     \* pixels of the logo images of SpecExtract
MaxColors == 3     \* num_colors asked of the extractor

\* ------------------------------------------------- IEEE-754 double helpers
\* A double is [m |-> 53 bits, most significant first, m[1] = 1; e |-> the
\* binary exponent of m[1]], its value is the sum of m[j] * 2^(e - j + 1).
MantBits == 53

\* F applied to the value of v, which is computed once.
Bind(v, F(_)) == CHOOSE out \in {F(x) : x \in {v}} : TRUE

\* One step of the long division st.r / t (st.r < t): the next quotient bit
\* is appended to st.bits, st.r becomes the remainder.
DivStep(st, t) ==
    IF 2 * st.r >= t THEN [bits |-> Append(st.bits, 1), r |-> 2 * st.r - t]
    ELSE [bits |-> Append(st.bits, 0), r |-> 2 * st.r]

\* n steps of the long division: the first half of them, then the rest.
RECURSIVE DivBits(_, _, _)
DivBits(st, t, n) ==
    IF n = 0 THEN st
    ELSE IF n = 1 THEN DivStep(st, t)
    ELSE Bind(DivBits(st, t, n \div 2), LAMBDA x : DivBits(x, t, n - (n \div 2)))

\* bits + 1, same length; all ones wraps to all zeros with carry 1.
IncBits(bits) ==
    LET zeros == {j \in 1..Len(bits) : bits[j] = 0}
    IN  IF zeros = {} THEN [bits |-> [j \in 1..Len(bits) |-> 0], carry |-> 1]
        ELSE LET z == CHOOSE j \in zeros : \A i \in zeros : i <= j
             IN  [bits |-> [j \in 1..Len(bits) |->
                               IF j < z THEN bits[j] ELSE IF j = z THEN 1 ELSE 0],
                  carry |-> 0]

\* Round to nearest, ties to even: m is the kept mantissa with exponent e,
\* round the first dropped bit, sticky whether any later dropped bit is set.
RoundNearestEven(m, e, round, sticky) ==
    IF round = 1 /\ (sticky \/ m[Len(m)] = 1)
    THEN Bind(IncBits(m), LAMBDA up :
            IF up.carry = 1
            THEN [m |-> <<1>> \o SubSeq(up.bits, 1, Len(m) - 1), e |-> e + 1]
            ELSE [m |-> up.bits, e |-> e])
    ELSE [m |-> m, e |-> e]

\* The least k with a * 2^k >= t, for a >= 1.
RECURSIVE NormShift(_, _)
NormShift(a, t) == IF a >= t THEN 0 ELSE 1 + NormShift(2 * a, t)

RECURSIVE Pow2(_)
Pow2(k) == IF k = 0 THEN 1 ELSE 2 * Pow2(k - 1)

\* index / total of two positive Python ints, index <= total: the correctly
\* rounded double quotient.
FloatDiv(i, t) ==
    Bind(NormShift(i, t), LAMBDA k :
        \* t <= i * 2^k < 2t: the leading bit is 1
        Bind(DivBits([bits |-> <<1>>, r |-> i * Pow2(k) - t], t, MantBits - 1), LAMBDA q :
            Bind(DivStep([bits |-> <<>>, r |-> q.r], t), LAMBDA rnd :
                RoundNearestEven(q.bits, 0 - k, rnd.bits[1], rnd.r # 0))))

\* The bits of the natural number n, least significant first.
RECURSIVE NatBitsLsb(_)
NatBitsLsb(n) == IF n = 0 THEN <<>> ELSE <<n % 2>> \o NatBitsLsb(n \div 2)

\* One step of the multiplication by the small natural c: bit b, the next
\* more significant one, is taken in.
MulStep(st, b, c) ==
    [out |-> Append(st.out, (b * c + st.carry) % 2), carry |-> (b * c + st.carry) \div 2]

\* The bits m[lo..hi] (most significant first) taken in from m[hi] up to
\* m[lo]: the less significant half of them, then the rest.
RECURSIVE MulBits(_, _, _, _, _)
MulBits(st, m, c, lo, hi) ==
    IF lo > hi THEN st
    ELSE IF lo = hi THEN MulStep(st, m[lo], c)
    ELSE Bind(MulBits(st, m, c, ((lo + hi) \div 2) + 1, hi), LAMBDA x :
            MulBits(x, m, c, lo, (lo + hi) \div 2))

Reverse(s) == [j \in 1..Len(s) |-> s[Len(s) + 1 - j]]

\* The exact product m * c, most significant bit first.
Product(m, c) ==
    Bind(MulBits([out |-> <<>>, carry |-> 0], m, c, 1, Len(m)), LAMBDA st :
        Reverse(st.out \o NatBitsLsb(st.carry)))

\* x * c for a double x and an integer-valued double c >= 1, rounded.
FloatMulInt(x, c) ==
    Bind(Product(x.m, c), LAMBDA p :
        RoundNearestEven(SubSeq(p, 1, MantBits),
                         x.e + (Len(p) - MantBits),
                         IF Len(p) > MantBits THEN p[MantBits + 1] ELSE 0,
                         \E j \in (MantBits + 2)..Len(p) : p[j] = 1))

\* The natural number whose bits, most significant first, are bits.
BitsToNat(bits) ==
    LET val[j \in 0..Len(bits)] == IF j = 0 THEN 0 ELSE 2 * val[j - 1] + bits[j]
    IN  val[Len(bits)]

\* int(x) of a non-negative double below 2^31: truncation toward zero.
FloatToInt(x) == IF x.e < 0 THEN 0 ELSE BitsToNat(SubSeq(x.m, 1, x.e + 1))

\* The percentage without the division by total.
Progress_Unscaled(index, total) == index * 100

\* progress = int((index / total) * 100); 0 / total is 0.0
Progress(index, total) ==
    IF index = 0 THEN 0
    ELSE Bind(FloatDiv(index, total), LAMBDA x :
            Bind(FloatMulInt(x, 100), LAMBDA y : FloatToInt(y)))

\* 0.0 and 1.0.
Zero == [m |-> <<>>, e |-> 0]
One == [m |-> [j \in 1..MantBits |-> IF j = 1 THEN 1 ELSE 0], e |-> 0]

Zeros(k) == [j \in 1..k |-> 0]
Max(a, b) == IF a >= b THEN a ELSE b
Min(a, b) == IF a <= b THEN a ELSE b

\* The bits of x.m placed in the positions hi down to lo of a common frame.
Aligned(x, hi, lo) == Zeros(hi - x.e) \o x.m \o Zeros((x.e - (MantBits - 1)) - lo)

\* One column of the addition a + b: the bits x and y and the carry so far.
AddStep(st, x, y) ==
    [out |-> Append(st.out, (x + y + st.carry) % 2), carry |-> (x + y + st.carry) \div 2]

\* The columns lo..hi taken in from hi (least significant) up to lo: the
\* less significant half of them, then the rest.
RECURSIVE AddColumns(_, _, _, _, _)
AddColumns(st, a, b, lo, hi) ==
    IF lo > hi THEN st
    ELSE IF lo = hi THEN AddStep(st, a[lo], b[lo])
    ELSE Bind(AddColumns(st, a, b, ((lo + hi) \div 2) + 1, hi), LAMBDA x :
            AddColumns(x, a, b, lo, (lo + hi) \div 2))

\* a + b of two bit strings of one length, one bit longer.
AddBits(a, b) ==
    Bind(AddColumns([out |-> <<>>, carry |-> 0], a, b, 1, Len(a)), LAMBDA st :
        Reverse(Append(st.out, st.carry)))

\* One column of the subtraction a - b; carry is the borrow so far.
SubStep(st, x, y) ==
    [out |-> Append(st.out, (x - y - st.carry + 2) % 2),
     carry |-> IF x - y - st.carry < 0 THEN 1 ELSE 0]

RECURSIVE SubColumns(_, _, _, _, _)
SubColumns(st, a, b, lo, hi) ==
    IF lo > hi THEN st
    ELSE IF lo = hi THEN SubStep(st, a[lo], b[lo])
    ELSE Bind(SubColumns(st, a, b, ((lo + hi) \div 2) + 1, hi), LAMBDA x :
            SubColumns(x, a, b, lo, (lo + hi) \div 2))

\* a - b of two bit strings of one length, a >= b.
SubBits(a, b) ==
    Bind(SubColumns([out |-> <<>>, carry |-> 0], a, b, 1, Len(a)), LAMBDA st :
        Reverse(st.out))

\* The double nearest to the exact value bits, whose first bit has the
\* binary exponent top.
RoundBits(bits, top) ==
    LET ones == {j \in 1..Len(bits) : bits[j] = 1}
    IN  IF ones = {} THEN Zero
        ELSE LET lead == CHOOSE j \in ones : \A i \in ones : j <= i
                 sig == SubSeq(bits, lead, Len(bits))
             IN  IF Len(sig) <= MantBits
                 THEN [m |-> sig \o Zeros(MantBits - Len(sig)), e |-> top - (lead - 1)]
                 ELSE RoundNearestEven(SubSeq(sig, 1, MantBits), top - (lead - 1),
                                       sig[MantBits + 1],
                                       \E j \in (MantBits + 2)..Len(sig) : sig[j] = 1)

\* x + y of two doubles >= 0, rounded.
FloatAdd(x, y) ==
    IF x = Zero THEN y
    ELSE IF y = Zero THEN x
    ELSE LET hi == Max(x.e, y.e)
             lo == Min(x.e, y.e) - (MantBits - 1)
         IN  Bind(AddBits(Aligned(x, hi, lo), Aligned(y, hi, lo)), LAMBDA sum :
                RoundBits(sum, hi + 1))

\* x - y of two doubles, x >= y >= 0, rounded.
FloatSub(x, y) ==
    IF y = Zero THEN x
    ELSE LET hi == Max(x.e, y.e)
             lo == Min(x.e, y.e) - (MantBits - 1)
         IN  Bind(SubBits(Aligned(x, hi, lo), Aligned(y, hi, lo)), LAMBDA diff :
                RoundBits(diff, hi))

\* c * x of a Python int 0..255 and a double >= 0, rounded.
IntMulFloat(c, x) == IF c = 0 \/ x = Zero THEN Zero ELSE FloatMulInt(x, c)

\* i / n of two Python ints, 0 <= i <= n, n >= 1.
Ratio(i, n) == IF i = 0 THEN Zero ELSE FloatDiv(i, n)

\* int(x) of a double >= 0.
Trunc(x) == IF x = Zero THEN 0 ELSE FloatToInt(x)

\* ---------------------------------------------------------------- gradient
\* int(c1 * (1 - ratio) + c2 * ratio) with ratio = i / n.
Blend(c1, c2, i, n) ==
    Bind(Ratio(i, n), LAMBDA ratio :
        Trunc(FloatAdd(IntMulFloat(c1, FloatSub(One, ratio)), IntMulFloat(c2, ratio))))

\* create_gradient: the image as its scanlines (rows when vertical, columns
\* when horizontal), scanline i drawn in one colour.
create_gradient(width, height, color1, color2, direction) ==
    LET n == IF direction = "vertical" THEN height ELSE width
    IN  [size |-> <<width, height>>,
         lines |-> [k \in 1..n |-> <<Blend(color1[1], color2[1], k - 1, n),
                                     Blend(color1[2], color2[2], k - 1, n),
                                     Blend(color1[3], color2[3], k - 1, n)>>]]

\* ------------------------------------------------------------ text helpers
Digits == <<"0", "1", "2", "3", "4", "5", "6", "7", "8", "9">>

\* str(n) of a natural number, as the f-string formats {index} and {total}.
RECURSIVE Str(_)
Str(n) == IF n < 10 THEN Digits[n + 1] ELSE Str(n \div 10) \o Digits[(n % 10) + 1]

\* The characters str.strip() removes.
Whitespace == {" ", "\t", "\n", "\r"}

\* A strip that forgets the right end.
RECURSIVE strip_LeftOnly(_)
strip_LeftOnly(s) ==
    IF s # <<>> /\ Head(s) \in Whitespace THEN strip_LeftOnly(Tail(s)) ELSE s

RECURSIVE lstrip(_)
lstrip(s) == IF s # <<>> /\ Head(s) \in Whitespace THEN lstrip(Tail(s)) ELSE s

RECURSIVE rstrip(_)
rstrip(s) ==
    IF s # <<>> /\ s[Len(s)] \in Whitespace THEN rstrip(SubSeq(s, 1, Len(s) - 1)) ELSE s

strip(s) == rstrip(lstrip(s))

startswith(s, p) == Len(s) >= Len(p) /\ SubSeq(s, 1, Len(p)) = p

WIFI == <<"W", "I", "F", "I", ":">>
TEL == <<"T", "E", "L", ":">>
MAILTO == <<"m", "a", "i", "l", "t", "o", ":">>
HTTP == <<"h", "t", "t", "p">>
HTTP_URL == <<"h", "t", "t", "p", ":", "/", "/">>
HTTPS_URL == <<"h", "t", "t", "p", "s", ":", "/", "/">>

\* detect_data_type without its "http" branch.
detect_data_type_NoHttp(data) ==
    IF startswith(data, WIFI) THEN data
    ELSE IF startswith(data, TEL) THEN data
    ELSE IF startswith(data, MAILTO) THEN data
    ELSE HTTPS_URL \o data

\* detect_data_type without its TEL: branch.
detect_data_type_NoTel(data) ==
    IF startswith(data, WIFI) THEN data
    ELSE IF startswith(data, MAILTO) THEN data
    ELSE IF startswith(data, HTTP) THEN data
    ELSE HTTPS_URL \o data

detect_data_type(data) ==
    IF startswith(data, WIFI) THEN data
    ELSE IF startswith(data, TEL) THEN data
    ELSE IF startswith(data, MAILTO) THEN data
    ELSE IF startswith(data, HTTP) THEN data
    ELSE IF ~(startswith(data, HTTP_URL) \/ startswith(data, HTTPS_URL))
         THEN HTTPS_URL \o data
         ELSE data

\* links = [line.strip() for line in f.readlines() if line.strip()]
NonEmptyStripped(line) == strip(line) # <<>>
ReadLinks(lines) ==
    LET kept == SelectSeq(lines, NonEmptyStripped)
    IN  [j \in 1..Len(kept) |-> strip(kept[j])]

\* ------------------------------------------------------- foreground tables
BuiltinNames ==
    [t \in 1..8 |->
        CASE t = 1 -> "Modern Gradient"
          [] t = 2 -> "Glassmorphism"
          [] t = 3 -> "Neon Cyberpunk"
          [] t = 4 -> "Minimalist"
          [] t = 5 -> "3D Luxury"
          [] t = 6 -> "Aurora Glow"
          [] t = 7 -> "Split Contrast"
          [] t = 8 -> "Sunrise Spotlight"]

\* The entries of format_combo.
SelectableFormats(pdf) == {"PNG", "JPG", "WEBP"} \cup (IF pdf THEN {"PDF"} ELSE {})

\* output_format.lower() of the values output_format takes.
lower(fmt) ==
    CASE fmt = "PNG" -> "png"
      [] fmt = "JPG" -> "jpg"
      [] fmt = "WEBP" -> "webp"
      [] fmt = "PDF" -> "pdf"

\* os.path.join(output_dir, name)
join(dir, name) == dir \o "/" \o name

\* ----------------------------------------------------------------- palette
\* A colour is a tuple of channels; None is the empty tuple, the one falsy
\* entry a palette of this model holds.
None == <<>>
Default1 == <<26, 35, 126>>
Default2 == <<74, 0, 224>>
Default3 == <<138, 43, 226>>
DefaultPalette == <<Default1, Default2, Default3>>

\* all(palette)
all(pal) == \A i \in 1..Len(pal) : pal[i] # None

\* normalize_palette: an absent or empty palette becomes the default, None
\* entries are kept or replaced, a colour is cut to three channels; the
\* number of entries is left as it is.
normalize_palette(pal, allow_none) ==
    IF pal = <<>>
    THEN IF allow_none THEN <<None, None, None>> ELSE DefaultPalette
    ELSE [i \in 1..Len(pal) |->
            IF pal[i] = None THEN (IF allow_none THEN None ELSE Default1)
            ELSE SubSeq(pal[i], 1, IF Len(pal[i]) < 3 THEN Len(pal[i]) ELSE 3)]

\* self.theme_presets
ThemeNames == {"Blue Ocean", "Cyber Night", "Pastel Style", "Sunset", "Forest"}
theme_presets ==
    [name \in ThemeNames |->
        CASE name = "Blue Ocean" -> << <<0, 119, 190>>, <<0, 180, 216>>, <<144, 224, 239>> >>
          [] name = "Cyber Night" -> << <<25, 0, 51>>, <<102, 0, 153>>, <<153, 51, 255>> >>
          [] name = "Pastel Style" -> << <<255, 179, 186>>, <<255, 223, 186>>, <<186, 255, 201>> >>
          [] name = "Sunset" -> << <<255, 94, 77>>, <<255, 154, 0>>, <<237, 117, 57>> >>
          [] name = "Forest" -> << <<34, 139, 34>>, <<107, 142, 35>>, <<124, 252, 0>> >>]

\* toggle_custom_colors(True) on the lists: for i in range(3), an entry of
\* the custom list that is None takes the theme's colour, in place. The loop
\* ends with IndexError at the first entry either list does not have.
FillStop(cust, theme) ==
    LET missing == {i \in 1..3 : i > Len(cust) \/ (cust[i] = None /\ i > Len(theme))}
    IN  IF missing = {} THEN 4 ELSE CHOOSE i \in missing : \A k \in missing : i <= k
FillCustom(h, custom, theme) ==
    [h EXCEPT ![custom] =
        [i \in 1..Len(h[custom]) |->
            IF i < FillStop(h[custom], h[theme]) /\ h[custom][i] = None
            THEN h[theme][i] ELSE h[custom][i]]]

\* The colours QColorDialog returns in this model.
Picked == {<<255, 0, 0>>}
\* The entries of theme_preset_combo chosen in this model.
ThemeChoices == {"Blue Ocean", "Sunset"}

\* ------------------------------------------------------- palette extraction
\* colorthief is not installed: extract_colors_from_logo takes its own path.
COLOR_THIEF_SUPPORT == FALSE

\* A logo file: whether Image.open can read it, and img.getdata() of the
\* converted and resized image.
Logo(readable, data) == [readable |-> readable, data |-> data]
Unreadable == Logo(FALSE, <<>>)

Abs(x) == IF x < 0 THEN 0 - x ELSE x

\* The pixels the extractor leaves out: near white or near black.
Excluded(p) ==
    \/ p[1] > 240 /\ p[2] > 240 /\ p[3] > 240
    \/ p[1] < 20 /\ p[2] < 20 /\ p[3] < 20

RECURSIVE Filter(_)
Filter(data) ==
    IF data = <<>> THEN <<>>
    ELSE IF Excluded(Head(data)) THEN Filter(Tail(data))
    ELSE <<Head(data)>> \o Filter(Tail(data))

\* Counter(data).most_common(n): the distinct colours by falling count,
\* equal counts in the order of first appearance, the first n of them.
most_common(data, n) ==
    LET colours == {data[i] : i \in 1..Len(data)}
        count(c) == Cardinality({i \in 1..Len(data) : data[i] = c})
        first(c) == CHOOSE i \in 1..Len(data) : data[i] = c /\ \A j \in 1..(i - 1) : data[j] # c
        before(d, c) == count(d) > count(c) \/ (count(d) = count(c) /\ first(d) < first(c))
        rank(c) == Cardinality({d \in colours : before(d, c)}) + 1
    IN  [r \in 1..Min(n, Cardinality(colours)) |-> CHOOSE c \in colours : rank(c) = r]

\* sum(abs(color[i] - c[i]) for i in range(3))
Distance(color, c) == Abs(color[1] - c[1]) + Abs(color[2] - c[2]) + Abs(color[3] - c[3])

\* The selection loop from entry j of common on: a colour is taken when it
\* is more than 80 away from every colour taken, until num_colors are taken.
RECURSIVE Select(_, _, _, _)
Select(common, j, selected, num_colors) ==
    IF j > Len(common) THEN selected
    ELSE IF selected = <<>> \/ \A k \in 1..Len(selected) : Distance(common[j], selected[k]) > 80
    THEN IF Len(selected) + 1 >= num_colors THEN Append(selected, common[j])
         ELSE Select(common, j + 1, Append(selected, common[j]), num_colors)
    ELSE Select(common, j + 1, selected, num_colors)

\* tuple(max(0, c - 40) for c in selected[0])
Darkened(c) == <<Max(0, c[1] - 40), Max(0, c[2] - 40), Max(0, c[3] - 40)>>

\* while len(selected) < num_colors: selected.append(<darkened selected[0]>)
RECURSIVE Pad(_, _)
Pad(selected, num_colors) ==
    IF Len(selected) < num_colors THEN Pad(Append(selected, Darkened(selected[1])), num_colors)
    ELSE selected

\* extract_colors_from_logo without colorthief. Any exception gives the
\* default palette.
extract_colors_from_logo(logo, num_colors) ==
    IF ~logo.readable THEN DefaultPalette
    ELSE LET pixels == Filter(logo.data)
             common == most_common(IF pixels # <<>> THEN pixels ELSE logo.data,
                                   num_colors * 5)
             selected == Select(common, 1, <<>>, num_colors)
         IN  IF selected = <<>> THEN DefaultPalette     \* selected[0]: IndexError
             ELSE SubSeq(Pad(selected, num_colors), 1, num_colors)

\* --------------------------------------------------------------- templates
\* A template source, by what exec does with it: text names the source,
\* raises is the exception exec ends with ("" for none), binds the globals
\* the source leaves in the namespace and the kind of object each is bound to.
Source(text, raises, binds) == [text |-> text, raises |-> raises, binds |-> binds]
NoNames == [n \in {} |-> ""]
SrcEmpty == Source("", "", NoNames)
SrcFunction == Source("def template_custom", "", "template_custom" :> "function")
SrcOtherName == Source("def template_mine", "", "template_mine" :> "function")
SrcNotCallable == Source("template_custom = 5", "", "template_custom" :> "int")
SrcSyntaxError == Source("def template_custom(", "SyntaxError", NoNames)
SrcRaises == Source("raise ValueError", "ValueError", NoNames)
SrcExits == Source("raise SystemExit", "SystemExit", NoNames)
Sources == {SrcEmpty, SrcFunction, SrcOtherName, SrcNotCallable, SrcSyntaxError,
            SrcRaises, SrcExits}

\* The exceptions that are not subclasses of Exception.
BaseOnly == {"SystemExit", "KeyboardInterrupt", "GeneratorExit"}

\* exec(code, namespace): the exception raised and the namespace left.
exec(code) ==
    IF code.raises # "" THEN [raised |-> code.raises, namespace |-> NoNames]
    ELSE [raised |-> "", namespace |-> code.binds]

\* What a template function is: a built-in method, or the object a custom
\* source binds to template_custom.
Builtin(k) == [kind |-> "builtin", id |-> k]
Custom(kind, id) == [kind |-> kind, id |-> id]
template_modern_gradient == Builtin(1)

\* get_template_function without its try/except: an exec that raises makes
\* the resolution raise.
get_template_function_NoExcept(id, templates) ==
    IF id \in 1..8 THEN [raised |-> "", func |-> Builtin(id)]
    ELSE LET hits == {j \in 1..Len(templates) : templates[j].id = id}
         IN  IF hits = {} THEN [raised |-> "", func |-> template_modern_gradient]
             ELSE LET t == templates[CHOOSE j \in hits : \A i \in hits : j <= i]
                      ran == exec(t.code)
                  IN  IF ran.raised # "" THEN [raised |-> ran.raised, func |-> template_modern_gradient]
                      ELSE IF "template_custom" \in DOMAIN ran.namespace
                      THEN [raised |-> "", func |-> Custom(ran.namespace["template_custom"], t.id)]
                      ELSE [raised |-> "", func |-> template_modern_gradient]

\* get_template_function: raised is the exception that leaves it, func what
\* it returns. The first stored template with the id decides.
get_template_function(id, templates) ==
    IF id \in 1..8 THEN [raised |-> "", func |-> Builtin(id)]
    ELSE LET hits == {j \in 1..Len(templates) : templates[j].id = id}
         IN  IF hits = {} THEN [raised |-> "", func |-> template_modern_gradient]
             ELSE LET t == templates[CHOOSE j \in hits : \A i \in hits : j <= i]
                      ran == exec(t.code)
                  IN  IF ran.raised # "" THEN [raised |-> "", func |-> template_modern_gradient]
                      ELSE IF "template_custom" \in DOMAIN ran.namespace
                      THEN [raised |-> "", func |-> Custom(ran.namespace["template_custom"], t.id)]
                      ELSE [raised |-> "", func |-> template_modern_gradient]

\* ------------------------------------------------------------------- state
Workers == 1..MaxJobs                  \* the QRWorker objects, in creation order
InputPath == "links.txt"               \* the one input file that exists
MissingPath == "missing.txt"           \* a path at which no file exists
Dirs == {"qr_results", "out"}
Prefixes == {"VPN", "QR"}
TemplateIds == {1, 4, 9}               \* the ids on_template_changed chooses from

\* Raw lines (f.readlines(), line ends kept) the input file is made of.
RawLines ==
    { <<" ", "\t", "\n">>,
      <<" ", "a", " ", "b", " ", "\n">>,
      WIFI \o <<"x", "\n">>,
      TEL \o <<"1">> }

RECURSIVE SeqsUpTo(_, _)
SeqsUpTo(S, n) ==
    IF n = 0 THEN {<<>>}
    ELSE LET shorter == SeqsUpTo(S, n - 1)
         IN  shorter \cup {Append(q, x) : q \in shorter, x \in S}

Files == SeqsUpTo(RawLines, MaxLines)

\* The input files of Spec: a file of blank lines only, and the files of
\* 0..MaxLines lines holding one record each.
MainFiles ==
    {<<<<" ", "\t", "\n">>>>} \cup {[j \in 1..n |-> TEL \o <<"1", "\n">>] : n \in 0..MaxLines}

\* reportlab is installed: format_combo then offers PDF as well. Without it
\* the foreground has one choice less and run() behaves the same.
PDF_SUPPORT == TRUE

\* ------------------------------------------------------------ ConfigManager
MaxBytes == 4
\* The bytes a stored file is made of: JSON brackets and separators, and one
\* byte (0xFF) that no UTF-8 text holds.
InvalidByte == "\\xff"
Bytes == {"[", "]", "{", "}", ",", InvalidByte}
Missing == <<"missing">>                  \* no file at the path
StoredFiles == {Missing} \cup SeqsUpTo(Bytes, MaxBytes)

Documents == {"config", "history", "templates", "presets"}
Dict(items) == [type |-> "dict", items |-> items]
List(items) == [type |-> "list", items |-> items]

\* The utf-8 decoding of the text file json.load reads.
decode(bytes) ==
    IF \E i \in 1..Len(bytes) : bytes[i] = InvalidByte
    THEN [raised |-> "UnicodeDecodeError", text |-> <<>>]
    ELSE [raised |-> "", text |-> bytes]

\* The JSON decoder on the texts of Bytes: a value is {} or a list of
\* values separated by commas.
Parsed(value, next) == [ok |-> TRUE, value |-> value, next |-> next]
NoValue == [type |-> "", items |-> <<>>]
NoParse == [ok |-> FALSE, value |-> NoValue, next |-> 0]
RECURSIVE ParseValue(_, _)
RECURSIVE ParseItems(_, _, _)
ParseValue(text, i) ==
    IF i + 1 > Len(text) THEN NoParse
    ELSE IF text[i] = "{" THEN (IF text[i + 1] = "}" THEN Parsed(Dict(<<>>), i + 2) ELSE NoParse)
    ELSE IF text[i] = "[" THEN (IF text[i + 1] = "]" THEN Parsed(List(<<>>), i + 2)
                                ELSE ParseItems(text, i + 1, <<>>))
    ELSE NoParse
ParseItems(text, i, items) ==
    LET v == ParseValue(text, i)
    IN  IF ~v.ok \/ v.next > Len(text) THEN NoParse
        ELSE IF text[v.next] = "," THEN ParseItems(text, v.next + 1, Append(items, v.value))
        ELSE IF text[v.next] = "]" THEN Parsed(List(Append(items, v.value)), v.next + 1)
        ELSE NoParse
loads(text) ==
    LET v == ParseValue(text, 1)
    IN  IF v.ok /\ v.next = Len(text) + 1
        THEN [raised |-> "", value |-> v.value]
        ELSE [raised |-> "JSONDecodeError", value |-> NoValue]

\* ConfigManager._load_json: FileNotFoundError and json.JSONDecodeError give
\* the default, any other exception leaves the function.
load_json(file, default) ==
    IF file = Missing THEN [raised |-> "", value |-> default]
    ELSE LET read == decode(file)
             parsed == loads(read.text)
         IN  IF read.raised # "" THEN [raised |-> read.raised, value |-> NoValue]
             ELSE IF parsed.raised # "" THEN [raised |-> "", value |-> default]
             ELSE parsed

\* load_config, load_history, load_custom_templates, load_presets.
EmptyDefault(document) == IF document = "config" THEN Dict(<<>>) ELSE List(<<>>)
load(document, file) == load_json(file, EmptyDefault(document))

VARIABLES
    fileLines,          \* the lines of the file at InputPath
    disk,               \* paths of the card files written so far
    formatted,          \* per directory, the entries of formatted_links.txt
    input_file, output_dir, name_prefix, output_format, selected_template,
    history,            \* ModernQRGenerator.history
    generate_btn,       \* generate_btn.isEnabled()
    progress_bar,       \* progress_bar.value()
    dialog,             \* text of the last message box shown
    workers,            \* per QRWorker: the locals of run() and its position
    queue,              \* signal emissions queued for the foreground thread
    job,                \* QRWorker objects created so far
    edits,              \* foreground setting changes made so far
    heap,               \* the Python list objects that hold palettes, by reference
    theme_colors,       \* reference (index in heap) of self.theme_colors
    custom_colors,      \* reference of self.custom_colors
    use_custom_colors,
    presets,            \* self.presets; a preset holds references to its lists
    custom_templates,   \* self.custom_templates
    call                \* the call made and its result, where one function is looked at alone

vars == <<fileLines, disk, formatted, input_file, output_dir,
          name_prefix, output_format, selected_template, history, generate_btn,
          progress_bar, dialog, workers, queue, job, edits,
          heap, theme_colors, custom_colors, use_custom_colors, presets,
          custom_templates, call>>

env == <<fileLines>>
palette == <<heap, theme_colors, custom_colors, use_custom_colors, presets>>
settings == <<input_file, output_dir, name_prefix, output_format, selected_template>>

\* One observed step of a run: op names the step, index the record, n a
\* number (progress value, count, success flag, template id), s a string, d
\* a payload, or the template function and the palette of a render call.
Ev(op, index, n, str, data) == [op |-> op, index |-> index, n |-> n, s |-> str, d |-> data]

\* A QRWorker that has not been created yet.
NoWorker ==
    [pc |-> "idle", output_dir |-> "", links |-> <<>>, total |-> 0, index |-> 0,
     template_name |-> "", file_name |-> "", qr_data |-> <<>>, temp_qr |-> FALSE,
     template_func |-> [kind |-> "", id |-> 0], colors |-> 0,
     exc |-> "", started_with |-> "", result |-> "", delivered |-> 0, trace |-> <<>>]

exists(path) == path = InputPath

\* The name of the first stored template with the id, "Custom" without one.
get_template_name(id, templates) ==
    IF id \in 1..8 THEN BuiltinNames[id]
    ELSE LET hits == {j \in 1..Len(templates) : templates[j].id = id}
         IN  IF hits = {} THEN "Custom"
             ELSE templates[CHOOSE j \in hits : \A i \in hits : j <= i].name

\* The custom templates file holds one template, added in an earlier session.
StoredTemplate == [id |-> 9, name |-> "Custom", description |-> "", code |-> SrcFunction]

\* No function is looked at alone.
NoCall == [op |-> "", args |-> <<>>, result |-> <<>>, done |-> TRUE]

\* Nothing has been generated, shown or changed yet.
Untouched ==
    /\ disk = {}
    /\ formatted = [d \in Dirs |-> <<>>]
    /\ history = <<>>
    /\ progress_bar = 0
    /\ dialog = ""
    /\ queue = <<>>
    /\ edits = 0
    /\ call = NoCall

\* ModernQRGenerator.__init__ and the defaults of app_state.
Defaults ==
    /\ Untouched
    /\ output_dir = "qr_results"
    /\ output_format = "PNG"
    /\ selected_template = 1
    /\ custom_templates = <<StoredTemplate>>

\* The palette of __init__: no configuration file, no presets file.
PaletteDefaults ==
    /\ heap = <<DefaultPalette, <<None, None, None>>>>
    /\ theme_colors = 1
    /\ custom_colors = 2
    /\ use_custom_colors = FALSE
    /\ presets = <<>>

\* No generation has been requested yet.
NoJob ==
    /\ generate_btn = TRUE
    /\ workers = [w \in Workers |-> NoWorker]
    /\ job = 0

\* start_generation has just accepted InputPath and queued the first worker.
FirstJobQueued ==
    /\ input_file = InputPath
    /\ generate_btn = FALSE
    /\ workers = [w \in Workers |->
                    IF w = 1 THEN [NoWorker EXCEPT !.pc = "queued", !.started_with = InputPath]
                    ELSE NoWorker]
    /\ job = 1

Init ==
    /\ fileLines \in MainFiles
    /\ input_file \in {"", InputPath, MissingPath}   \* load_config restores it
    /\ name_prefix = "VPN"
    /\ Defaults
    /\ PaletteDefaults
    /\ NoJob

\* -------------------------------------------------------------- foreground
\* start_generation that leaves the button enabled.
start_generation_ButtonStaysEnabled ==
    /\ generate_btn
    /\ input_file # ""
    /\ exists(input_file)
    /\ job < MaxJobs
    /\ progress_bar' = 0
    /\ job' = job + 1
    /\ workers' = [workers EXCEPT ![job + 1] =
                      [NoWorker EXCEPT !.pc = "queued", !.started_with = input_file]]
    /\ UNCHANGED <<env, palette, custom_templates, call, disk, formatted, settings, history, queue, edits, generate_btn, dialog>>

start_generation ==
    /\ generate_btn
    /\ IF input_file = ""
       THEN /\ dialog' = "Please select input file"
            /\ UNCHANGED <<generate_btn, progress_bar, workers, job>>
       ELSE IF ~exists(input_file)
       THEN /\ dialog' = "Input file does not exist"
            /\ UNCHANGED <<generate_btn, progress_bar, workers, job>>
       ELSE /\ job < MaxJobs
            /\ generate_btn' = FALSE
            /\ progress_bar' = 0
            /\ job' = job + 1
            /\ workers' = [workers EXCEPT ![job + 1] =
                              [NoWorker EXCEPT !.pc = "queued", !.started_with = input_file]]
            /\ UNCHANGED dialog
    /\ UNCHANGED <<env, palette, custom_templates, call, disk, formatted, settings, history, queue, edits>>

update_progress ==
    /\ queue # <<>>
    /\ Head(queue).kind = "progress"
    /\ progress_bar' = Head(queue).value
    /\ queue' = Tail(queue)
    /\ UNCHANGED <<env, palette, custom_templates, call, disk, formatted, settings, history, generate_btn, dialog,
                   workers, job, edits>>

generation_finished ==
    /\ queue # <<>>
    /\ Head(queue).kind = "finished"
    /\ generate_btn' = TRUE
    /\ dialog' = Head(queue).message
    \* the QRunnable is gone once it has run: only its count of deliveries stays
    /\ workers' = [workers EXCEPT ![Head(queue).from] =
                      [NoWorker EXCEPT !.pc = "done",
                                       !.result = workers[Head(queue).from].result,
                                       !.delivered = workers[Head(queue).from].delivered + 1]]
    /\ queue' = Tail(queue)
    /\ UNCHANGED <<env, palette, custom_templates, call, disk, formatted, settings, history, progress_bar, job, edits>>

browse_input_file ==
    /\ edits < MaxEdits
    /\ edits' = edits + 1
    /\ \E path \in {InputPath, MissingPath} :
          /\ path # input_file
          /\ input_file' = path
    /\ UNCHANGED <<env, palette, custom_templates, call, disk, formatted, output_dir, name_prefix, output_format,
                   selected_template, history, generate_btn, progress_bar, dialog,
                   workers, queue, job>>

browse_output_dir ==
    /\ edits < MaxEdits
    /\ \E d \in Dirs \ {output_dir} : output_dir' = d
    /\ edits' = edits + 1
    /\ UNCHANGED <<env, palette, custom_templates, call, disk, formatted, input_file, name_prefix, output_format,
                   selected_template, history, generate_btn, progress_bar, dialog,
                   workers, queue, job>>

name_prefix_changed ==
    /\ edits < MaxEdits
    /\ \E text \in Prefixes \ {name_prefix} : name_prefix' = text
    /\ edits' = edits + 1
    /\ UNCHANGED <<env, palette, custom_templates, call, disk, formatted, input_file, output_dir, output_format,
                   selected_template, history, generate_btn, progress_bar, dialog,
                   workers, queue, job>>

format_changed ==
    /\ edits < MaxEdits
    /\ \E t \in SelectableFormats(PDF_SUPPORT) \ {output_format} : output_format' = t
    /\ edits' = edits + 1
    /\ UNCHANGED <<env, palette, custom_templates, call, disk, formatted, input_file, output_dir, name_prefix,
                   selected_template, history, generate_btn, progress_bar, dialog,
                   workers, queue, job>>

on_template_changed ==
    /\ edits < MaxEdits
    /\ \E id \in TemplateIds \ {selected_template} :
          \* template_combo lists the built-in and the stored templates
          /\ id \in 1..8 \/ \E j \in 1..Len(custom_templates) : custom_templates[j].id = id
          /\ selected_template' = id
    /\ edits' = edits + 1
    /\ UNCHANGED <<env, palette, custom_templates, call, disk, formatted, input_file, output_dir, name_prefix,
                   output_format, history, generate_btn, progress_bar, dialog,
                   workers, queue, job>>

\* ------------------------------------------------------------------ history
ClearQuestion == "Are you sure you want to clear all history?"
Replies == {"Yes", "No"}
ExportPath == "history.json"

\* Clear History that removes the newest record only.
clear_history_DropsNewest ==
    /\ \E reply \in Replies :
          /\ history' = IF reply = "Yes" /\ history # <<>>
                        THEN SubSeq(history, 1, Len(history) - 1) ELSE history
          /\ dialog' = ClearQuestion \o " " \o reply
    /\ UNCHANGED <<env, palette, custom_templates, call, disk, formatted, settings,
                   generate_btn, progress_bar, workers, queue, job, edits>>

\* The Clear History button: a question box, and on Yes self.history = [],
\* save_history, update_history_table. dialog keeps the box and the answer.
clear_history ==
    /\ \E reply \in Replies :
          /\ history' = IF reply = "Yes" THEN <<>> ELSE history
          /\ dialog' = ClearQuestion \o " " \o reply
    /\ UNCHANGED <<env, palette, custom_templates, call, disk, formatted, settings,
                   generate_btn, progress_bar, workers, queue, job, edits>>

\* The Export History button, with a file chosen: the list is written out
\* and left as it is.
export_history ==
    /\ dialog' = IF history = <<>> THEN "No history to export"
                 ELSE "History exported to " \o ExportPath
    /\ UNCHANGED <<env, palette, custom_templates, call, disk, formatted, settings, history,
                   generate_btn, progress_bar, workers, queue, job, edits>>

\* ------------------------------------------------------ palette operations
\* The Use Custom Colors check box is clicked.
toggle_custom_colors ==
    /\ edits < MaxEdits
    /\ edits' = edits + 1
    /\ use_custom_colors' = ~use_custom_colors
    /\ heap' = IF ~use_custom_colors THEN FillCustom(heap, custom_colors, theme_colors)
               ELSE heap
    /\ UNCHANGED <<env, theme_colors, custom_colors, presets, custom_templates, call, disk,
                   formatted, settings, history, generate_btn, progress_bar, dialog,
                   workers, queue, job>>

\* A colour button is clicked and a colour chosen: the entry of the custom
\* list is replaced in place. The buttons are enabled by the check box.
choose_color ==
    /\ edits < MaxEdits
    /\ edits' = edits + 1
    /\ use_custom_colors
    /\ \E index \in 1..3, rgb \in Picked :
          /\ index <= Len(heap[custom_colors])
          /\ heap[custom_colors][index] # rgb
          /\ heap' = [heap EXCEPT ![custom_colors][index] = rgb]
    /\ UNCHANGED <<env, theme_colors, custom_colors, use_custom_colors, presets,
                   custom_templates, call, disk, formatted, settings, history,
                   generate_btn, progress_bar, dialog, workers, queue, job>>

\* A theme preset is chosen: theme_colors is bound to a new list.
on_theme_preset_changed ==
    /\ edits < MaxEdits
    /\ edits' = edits + 1
    /\ \E preset_name \in ThemeChoices :
          /\ heap' = Append(heap, theme_presets[preset_name])
          /\ theme_colors' = Len(heap) + 1
    /\ use_custom_colors' = FALSE
    /\ UNCHANGED <<env, custom_colors, presets, custom_templates, call, disk, formatted,
                   settings, history, generate_btn, progress_bar, dialog, workers, queue, job>>

\* Save Preset: the preset keeps the two lists themselves, not copies.
save_preset_dialog ==
    /\ edits < MaxEdits
    /\ edits' = edits + 1
    /\ presets' = Append(presets,
                         [theme_colors |-> theme_colors, custom_colors |-> custom_colors,
                          use_custom_colors |-> use_custom_colors,
                          name_prefix |-> name_prefix,
                          selected_template |-> selected_template,
                          output_format |-> output_format])
    /\ dialog' = "Preset saved successfully!"
    /\ UNCHANGED <<env, heap, theme_colors, custom_colors, use_custom_colors,
                   custom_templates, call, disk, formatted, settings, history,
                   generate_btn, progress_bar, workers, queue, job>>

\* Load Preset: apply_preset on the chosen preset, which ends with
\* toggle_custom_colors(self.use_custom_colors).
apply_preset ==
    /\ edits < MaxEdits
    /\ edits' = edits + 1
    /\ \E k \in 1..Len(presets) :
          LET preset == presets[k]
          IN  /\ selected_template' = preset.selected_template
              /\ theme_colors' = preset.theme_colors
              /\ custom_colors' = preset.custom_colors
              /\ use_custom_colors' = preset.use_custom_colors
              /\ name_prefix' = preset.name_prefix
              /\ output_format' = preset.output_format
              /\ heap' = IF preset.use_custom_colors
                         THEN FillCustom(heap, preset.custom_colors, preset.theme_colors)
                         ELSE heap
    /\ dialog' = "Preset loaded successfully!"
    /\ UNCHANGED <<env, presets, custom_templates, call, disk, formatted, input_file,
                   output_dir, history, generate_btn, progress_bar, workers, queue, job>>

\* -------------------------------------------------------- template dialogs
\* TemplateDialog.validate_and_accept on the OK button: whether the dialog is
\* accepted, the message box shown, and the exception that leaves the slot
\* (except Exception does not catch the exceptions of BaseOnly).
validate_and_accept(name, code) ==
    IF name = "" \/ code.text = ""
    THEN [accepted |-> FALSE, message |-> "Please enter template name and code", raised |-> ""]
    ELSE LET ran == exec(code)
         IN  IF ran.raised \in BaseOnly
             THEN [accepted |-> FALSE, message |-> "", raised |-> ran.raised]
             ELSE IF ran.raised # ""
             THEN [accepted |-> FALSE, message |-> "Invalid template code: " \o ran.raised,
                   raised |-> ""]
             ELSE IF "template_custom" \notin DOMAIN ran.namespace
             THEN [accepted |-> FALSE,
                   message |-> "Template function must be named 'template_custom'",
                   raised |-> ""]
             ELSE [accepted |-> TRUE, message |-> "", raised |-> ""]

\* The names typed into the dialog, stripped.
TemplateNames == {"", "Mine"}

\* A max that always gives the default.
max_DefaultOnly(values, d) == d

\* max(values, default=d)
max(values, d) == IF values = {} THEN d ELSE CHOOSE m \in values : \A v \in values : v <= m

\* Add Custom Template that numbers the templates from 1.
add_template_dialog_CountsFromOne ==
    /\ edits < MaxDialogs
    /\ edits' = edits + 1
    /\ \E name \in TemplateNames, code \in Sources :
          LET checked == validate_and_accept(name, code)
              template_id == Len(custom_templates) + 1
          IN  /\ call' = [op |-> "add_template_dialog", args |-> <<name, code>>,
                          result |-> <<checked.accepted, checked.raised>>, done |-> TRUE]
              /\ IF checked.accepted
                 THEN /\ custom_templates' =
                            Append(custom_templates,
                                   [id |-> template_id, name |-> name, description |-> "",
                                    code |-> code])
                      /\ dialog' = "Template added successfully!"
                 ELSE /\ UNCHANGED custom_templates
                      /\ dialog' = IF checked.raised # "" THEN dialog ELSE checked.message
    /\ UNCHANGED <<env, palette, disk, formatted, settings, history, generate_btn,
                   progress_bar, workers, queue, job>>

\* Add Custom Template, the dialog closed with OK.
add_template_dialog ==
    /\ edits < MaxDialogs
    /\ edits' = edits + 1
    /\ \E name \in TemplateNames, code \in Sources :
          LET checked == validate_and_accept(name, code)
              template_id == max({custom_templates[j].id : j \in 1..Len(custom_templates)}, 8) + 1
          IN  /\ call' = [op |-> "add_template_dialog", args |-> <<name, code>>,
                          result |-> <<checked.accepted, checked.raised>>, done |-> TRUE]
              /\ IF checked.accepted
                 THEN /\ custom_templates' =
                            Append(custom_templates,
                                   [id |-> template_id, name |-> name, description |-> "",
                                    code |-> code])
                      /\ dialog' = "Template added successfully!"
                 ELSE /\ UNCHANGED custom_templates
                      /\ dialog' = IF checked.raised # "" THEN dialog ELSE checked.message
    /\ UNCHANGED <<env, palette, disk, formatted, settings, history, generate_btn,
                   progress_bar, workers, queue, job>>

\* Edit Template on the selected template, the dialog closed with OK.
edit_template_dialog ==
    /\ edits < MaxDialogs
    /\ edits' = edits + 1
    /\ LET hits == {j \in 1..Len(custom_templates) : custom_templates[j].id = selected_template}
       IN  IF selected_template <= 5
           THEN /\ dialog' = "Built-in templates cannot be edited"
                /\ UNCHANGED <<custom_templates, call>>
           ELSE IF hits = {}
           THEN /\ dialog' = "Template not found"
                /\ UNCHANGED <<custom_templates, call>>
           ELSE \E name \in TemplateNames, code \in Sources :
                  LET checked == validate_and_accept(name, code)
                      first == CHOOSE j \in hits : \A i \in hits : j <= i
                  IN  /\ call' = [op |-> "edit_template_dialog", args |-> <<name, code>>,
                                  result |-> <<checked.accepted, checked.raised>>, done |-> TRUE]
                      /\ IF checked.accepted
                         THEN /\ custom_templates' =
                                    [custom_templates EXCEPT ![first] =
                                        [@ EXCEPT !.name = name, !.description = "",
                                                  !.code = code]]
                              /\ dialog' = "Template updated successfully!"
                         ELSE /\ UNCHANGED custom_templates
                              /\ dialog' = IF checked.raised # "" THEN dialog
                                           ELSE checked.message
    /\ UNCHANGED <<env, palette, disk, formatted, settings, history, generate_btn,
                   progress_bar, workers, queue, job>>

\* ------------------------------------------------------------ QRWorker.run
\* str(e) of the exceptions the steps of run() raise.
OpenError == "No such file or directory"
EncodeError == "Data too large"
RenderError == "render failed"
WriteError == "cannot write file"

ProgressMsg(w, v) ==
    [kind |-> "progress", value |-> v, success |-> FALSE, message |-> "", from |-> w]
FinishedMsg(w, ok, msg) ==
    [kind |-> "finished", value |-> 0, success |-> ok, message |-> msg, from |-> w]

\* The pictographs that open the message texts, by name.
CheckMark == "(check mark)"
Folder == "(folder)"
CrossMark == "(cross mark)"

SuccessText(total, dir) ==
    CheckMark \o " Generated " \o Str(total) \o " QR codes successfully!\n\n"
        \o Folder \o " Path: " \o dir
FailureText(err) == CrossMark \o " Failed to generate QR codes:\n" \o err

\* The head of run(): output directory, the records, progress 0, the
\* template name, and formatted_links.txt opened for writing.
W_Start(w) ==
    LET me == workers[w]
        resolved == get_template_function(selected_template, custom_templates)
        colors == IF use_custom_colors /\ all(heap[custom_colors])
                  THEN custom_colors ELSE theme_colors
    IN  /\ me.pc = "queued"
        /\ IF input_file = "" \/ ~exists(input_file)
           THEN /\ workers' = [workers EXCEPT ![w] =
                       [me EXCEPT !.pc = "except", !.output_dir = output_dir,
                                  !.exc = OpenError,
                                  !.trace = Append(@, Ev("raise", 0, 0, OpenError, <<>>))]]
                /\ UNCHANGED <<queue, formatted>>
           ELSE IF resolved.raised # ""
           THEN /\ workers' = [workers EXCEPT ![w] =
                       [me EXCEPT !.pc = "except", !.output_dir = output_dir,
                                  !.links = ReadLinks(fileLines),
                                  !.total = Len(ReadLinks(fileLines)),
                                  !.exc = resolved.raised,
                                  !.trace = @ \o <<Ev("progress", 0, 0, "", <<>>),
                                                   Ev("raise", 0, 0, resolved.raised, <<>>)>>]]
                /\ queue' = Append(queue, ProgressMsg(w, 0))
                /\ UNCHANGED formatted
           ELSE /\ workers' = [workers EXCEPT ![w] =
                       [me EXCEPT !.pc = "loop", !.output_dir = output_dir,
                                  !.links = ReadLinks(fileLines),
                                  !.total = Len(ReadLinks(fileLines)),
                                  !.template_func = resolved.func,
                                  !.template_name =
                                      get_template_name(selected_template, custom_templates),
                                  !.colors = colors,
                                  !.trace = @ \o <<Ev("progress", 0, 0, "", <<>>),
                                                   Ev("start", 0, selected_template, name_prefix,
                                                      <<resolved.func, heap[colors]>>)>>]]
                /\ queue' = Append(queue, ProgressMsg(w, 0))
                /\ formatted' = [formatted EXCEPT ![output_dir] = <<>>]
        /\ UNCHANGED <<env, palette, custom_templates, call, disk, settings, history,
                       generate_btn, progress_bar, dialog, job, edits>>

\* A loop body that lists the normalised payload in formatted_links.txt.
W_Encode_WritesNormalized(w) ==
    LET me == workers[w]
        index == me.index + 1
        link == me.links[index]
        file_name == name_prefix \o " " \o Str(index)
        qr_data == detect_data_type(link)
        called == [me EXCEPT !.index = index, !.file_name = file_name,
                             !.qr_data = qr_data,
                             !.trace = Append(@, Ev("encode", index, 0, file_name, qr_data))]
    IN  /\ me.pc = "loop"
        /\ me.index < me.total
        /\ formatted' = [formatted EXCEPT ![me.output_dir] =
                            Append(@, [label |-> file_name, link |-> qr_data])]
        /\ \/ workers' = [workers EXCEPT ![w] =
                             [called EXCEPT !.pc = "render", !.temp_qr = TRUE]]
           \/ workers' = [workers EXCEPT ![w] =
                             [called EXCEPT !.pc = "except", !.exc = EncodeError,
                                 !.trace = Append(@, Ev("raise", index, 0, EncodeError, <<>>))]]
        /\ UNCHANGED <<env, palette, custom_templates, call, disk, settings, history, generate_btn, progress_bar,
                       dialog, queue, job, edits>>

\* Top of the loop body: label, entry in formatted_links.txt, payload,
\* segno.make, mkstemp.
W_Encode(w) ==
    LET me == workers[w]
        index == me.index + 1
        link == me.links[index]
        file_name == name_prefix \o " " \o Str(index)
        qr_data == detect_data_type(link)
        called == [me EXCEPT !.index = index, !.file_name = file_name,
                             !.qr_data = qr_data,
                             !.trace = Append(@, Ev("encode", index, 0, file_name, qr_data))]
    IN  /\ me.pc = "loop"
        /\ me.index < me.total
        /\ formatted' = [formatted EXCEPT ![me.output_dir] =
                            Append(@, [label |-> file_name, link |-> link])]
        /\ \/ workers' = [workers EXCEPT ![w] =
                             [called EXCEPT !.pc = "render", !.temp_qr = TRUE]]
           \/ workers' = [workers EXCEPT ![w] =
                             [called EXCEPT !.pc = "except", !.exc = EncodeError,
                                 !.trace = Append(@, Ev("raise", index, 0, EncodeError, <<>>))]]
        /\ UNCHANGED <<env, palette, custom_templates, call, disk, settings, history, generate_btn, progress_bar,
                       dialog, queue, job, edits>>

\* A render step after which the card is not saved.
W_Render_SkipsPersist(w) ==
    LET me == workers[w]
        called == [me EXCEPT !.trace = Append(@, Ev("render", me.index, 0, me.file_name,
                                                     <<me.template_func, heap[me.colors]>>))]
    IN  /\ me.pc = "render"
        /\ workers' = [workers EXCEPT ![w] = [called EXCEPT !.pc = "emit"]]
        /\ UNCHANGED <<env, palette, custom_templates, call, disk, formatted, settings, history,
                       generate_btn, progress_bar, dialog, queue, job, edits>>

\* qr.save to the temporary file, Image.open, template_func.
W_Render(w) ==
    LET me == workers[w]
        called == [me EXCEPT !.trace = Append(@, Ev("render", me.index, 0, me.file_name,
                                                     <<me.template_func, heap[me.colors]>>))]
    IN  /\ me.pc = "render"
        /\ \/ /\ me.template_func.kind \in {"builtin", "function"}   \* it can be called
              /\ workers' = [workers EXCEPT ![w] = [called EXCEPT !.pc = "persist"]]
           \/ workers' = [workers EXCEPT ![w] =
                             [called EXCEPT !.pc = "finally", !.exc = RenderError,
                                 !.trace = Append(@, Ev("raise", me.index, 0, RenderError, <<>>))]]
        /\ UNCHANGED <<env, palette, custom_templates, call, disk, formatted, settings, history, generate_btn,
                       progress_bar, dialog, queue, job, edits>>

\* A save that does not overwrite: a card whose name is taken on disk is
\* written under the name with "_1" added.
W_Persist_KeepsOldCard(w) ==
    LET me == workers[w]
        output_file == join(me.output_dir,
                            me.template_name \o "_" \o me.file_name \o "." \o lower(output_format))
        free_file == IF output_file \in disk
                     THEN join(me.output_dir,
                               me.template_name \o "_" \o me.file_name \o "_1." \o lower(output_format))
                     ELSE output_file
    IN  /\ me.pc = "persist"
        /\ IF output_format \in {"PNG", "JPG", "WEBP"}
           THEN \/ /\ disk' = disk \cup {free_file}
                   /\ workers' = [workers EXCEPT ![w] =
                          [me EXCEPT !.pc = "emit",
                              !.trace = Append(@, Ev("write", me.index, 0, free_file, <<>>))]]
                \/ /\ workers' = [workers EXCEPT ![w] =
                          [me EXCEPT !.pc = "finally", !.exc = WriteError,
                              !.trace = Append(@, Ev("raise", me.index, 0, WriteError, <<>>))]]
                   /\ UNCHANGED disk
           ELSE /\ workers' = [workers EXCEPT ![w] = [me EXCEPT !.pc = "emit"]]
                /\ UNCHANGED disk
        /\ UNCHANGED <<env, palette, custom_templates, call, formatted, settings, history, generate_btn, progress_bar,
                       dialog, queue, job, edits>>

\* final_img.save under the output name, for the formats run() handles.
W_Persist(w) ==
    LET me == workers[w]
        output_file == join(me.output_dir,
                            me.template_name \o "_" \o me.file_name \o "." \o lower(output_format))
    IN  /\ me.pc = "persist"
        /\ IF output_format \in {"PNG", "JPG", "WEBP"}
           THEN \/ /\ disk' = disk \cup {output_file}
                   /\ workers' = [workers EXCEPT ![w] =
                          [me EXCEPT !.pc = "emit",
                              !.trace = Append(@, Ev("write", me.index, 0, output_file, <<>>))]]
                \/ /\ workers' = [workers EXCEPT ![w] =
                          [me EXCEPT !.pc = "finally", !.exc = WriteError,
                              !.trace = Append(@, Ev("raise", me.index, 0, WriteError, <<>>))]]
                   /\ UNCHANGED disk
           ELSE /\ workers' = [workers EXCEPT ![w] = [me EXCEPT !.pc = "emit"]]
                /\ UNCHANGED disk
        /\ UNCHANGED <<env, palette, custom_templates, call, formatted, settings, history, generate_btn, progress_bar,
                       dialog, queue, job, edits>>

\* A progress step that reports the records before the current one.
W_Emit_PreviousRecord(w) ==
    LET me == workers[w]
        progress == Progress(me.index - 1, me.total)
    IN  /\ me.pc = "emit"
        /\ queue' = Append(queue, ProgressMsg(w, progress))
        /\ workers' = [workers EXCEPT ![w] =
               [me EXCEPT !.pc = "finally",
                          !.trace = Append(@, Ev("progress", me.index, progress, "", <<>>))]]
        /\ UNCHANGED <<env, palette, custom_templates, call, disk, formatted, settings, history, generate_btn,
                       progress_bar, dialog, job, edits>>

\* progress = int((index / total) * 100); self.signals.progress.emit(progress)
W_Emit(w) ==
    LET me == workers[w]
        progress == Progress(me.index, me.total)
    IN  /\ me.pc = "emit"
        /\ queue' = Append(queue, ProgressMsg(w, progress))
        /\ workers' = [workers EXCEPT ![w] =
               [me EXCEPT !.pc = "finally",
                          !.trace = Append(@, Ev("progress", me.index, progress, "", <<>>))]]
        /\ UNCHANGED <<env, palette, custom_templates, call, disk, formatted, settings, history, generate_btn,
                       progress_bar, dialog, job, edits>>

\* A finally block that leaves the temporary file behind.
W_Finally_KeepsTemp(w) ==
    LET me == workers[w]
    IN  /\ me.pc = "finally"
        /\ workers' = [workers EXCEPT ![w] =
               [me EXCEPT !.pc = IF me.exc # "" THEN "except" ELSE "loop"]]
        /\ UNCHANGED <<env, palette, custom_templates, call, disk, formatted, settings, history, generate_btn,
                       progress_bar, dialog, queue, job, edits>>

\* A finally block that swallows the exception.
W_Finally_Swallows(w) ==
    LET me == workers[w]
    IN  /\ me.pc = "finally"
        /\ workers' = [workers EXCEPT ![w] = [me EXCEPT !.temp_qr = FALSE, !.pc = "loop"]]
        /\ UNCHANGED <<env, palette, custom_templates, call, disk, formatted, settings, history, generate_btn,
                       progress_bar, dialog, queue, job, edits>>

\* finally: unlink the temporary file, then go on or re-raise.
W_Finally(w) ==
    LET me == workers[w]
    IN  /\ me.pc = "finally"
        /\ workers' = [workers EXCEPT ![w] =
               [me EXCEPT !.temp_qr = FALSE,
                          !.pc = IF me.exc # "" THEN "except" ELSE "loop"]]
        /\ UNCHANGED <<env, palette, custom_templates, call, disk, formatted, settings, history, generate_btn,
                       progress_bar, dialog, queue, job, edits>>

\* The history record taken from the foreground's current output_dir.
W_Finish_LiveDir(w) ==
    LET me == workers[w]
        message == SuccessText(me.total, me.output_dir)
    IN  /\ me.pc = "loop"
        /\ me.index = me.total
        /\ history' = Append(history, [template |-> me.template_name,
                                       count |-> me.total,
                                       output_dir |-> output_dir])
        /\ queue' = Append(queue, FinishedMsg(w, TRUE, message))
        /\ workers' = [workers EXCEPT ![w] =
               [me EXCEPT !.pc = "done", !.result = "ok",
                          !.trace = @ \o <<Ev("history", me.index, me.total, output_dir, <<>>),
                                           Ev("finished", me.index, 1, message, <<>>)>>]]
        /\ UNCHANGED <<env, palette, custom_templates, call, disk, formatted, settings, generate_btn, progress_bar,
                       dialog, job, edits>>

\* After the loop: the history record (its date is the wall clock, left
\* out), save_history, finished(True, ...).
W_Finish(w) ==
    LET me == workers[w]
        message == SuccessText(me.total, me.output_dir)
    IN  /\ me.pc = "loop"
        /\ me.index = me.total
        /\ history' = Append(history, [template |-> me.template_name,
                                       count |-> me.total,
                                       output_dir |-> me.output_dir])
        /\ queue' = Append(queue, FinishedMsg(w, TRUE, message))
        /\ workers' = [workers EXCEPT ![w] =
               [me EXCEPT !.pc = "done", !.result = "ok",
                          !.trace = @ \o <<Ev("history", me.index, me.total, me.output_dir, <<>>),
                                           Ev("finished", me.index, 1, message, <<>>)>>]]
        /\ UNCHANGED <<env, palette, custom_templates, call, disk, formatted, settings, generate_btn, progress_bar,
                       dialog, job, edits>>

\* An except block that reports nothing.
W_Except_NoSignal(w) ==
    LET me == workers[w]
    IN  /\ me.pc = "except"
        /\ workers' = [workers EXCEPT ![w] = [me EXCEPT !.pc = "done", !.result = "failed"]]
        /\ UNCHANGED <<env, palette, custom_templates, call, disk, formatted, settings, history, generate_btn,
                       progress_bar, dialog, queue, job, edits>>

\* except Exception as e: finished(False, ...)
W_Except(w) ==
    LET me == workers[w]
        message == FailureText(me.exc)
    IN  /\ me.pc = "except"
        /\ queue' = Append(queue, FinishedMsg(w, FALSE, message))
        /\ workers' = [workers EXCEPT ![w] =
               [me EXCEPT !.pc = "done", !.result = "failed",
                          !.trace = Append(@, Ev("finished", me.index, 0, message, <<>>))]]
        /\ UNCHANGED <<env, palette, custom_templates, call, disk, formatted, settings, history, generate_btn,
                       progress_bar, dialog, job, edits>>

run ==
    \E w \in Workers :
        \/ W_Start(w)
        \/ W_Encode(w)
        \/ W_Render(w)
        \/ W_Persist(w)
        \/ W_Emit(w)
        \/ W_Finally(w)
        \/ W_Finish(w)
        \/ W_Except(w)

Next ==
    \/ start_generation
    \/ update_progress
    \/ generation_finished
    \/ browse_input_file
    \/ browse_output_dir
    \/ name_prefix_changed
    \/ format_changed
    \/ on_template_changed
    \/ run

Spec == Init /\ [][Next]_vars

\* ------------------------------------------------------ other environments
\* Jobs with the settings left alone, under the scheduling the program has:
\* the thread pool runs a queued worker, the event loop delivers every
\* queued signal.
NextLive ==
    \/ start_generation
    \/ update_progress
    \/ generation_finished
    \/ run

SpecLive ==
    /\ Init
    /\ [][NextLive]_vars
    /\ WF_vars(run)
    /\ WF_vars(update_progress)
    /\ WF_vars(generation_finished)

\* Jobs one after the other on one input file, under each combination of
\* template, prefix, output format and output directory, with no setting
\* touched between or during them.
InitBatch ==
    /\ fileLines \in {[j \in 1..n |-> TEL \o <<"1", "\n">>] : n \in 1..MaxLines}
    /\ input_file = InputPath
    /\ name_prefix \in Prefixes
    /\ Untouched
    /\ output_dir \in Dirs
    /\ output_format \in {"PNG", "WEBP", "PDF"}
    /\ selected_template \in TemplateIds
    /\ custom_templates = <<StoredTemplate>>
    /\ PaletteDefaults
    /\ NoJob
SpecBatch == InitBatch /\ [][NextLive]_vars

\* One job over an input file of 1..MaxTotal records, the worker alone.
InitProgress ==
    /\ fileLines \in {[j \in 1..n |-> TEL \o <<"1", "\n">>] : n \in 1..MaxTotal}
    /\ name_prefix = "VPN"
    /\ Defaults
    /\ PaletteDefaults
    /\ FirstJobQueued

SpecProgress == InitProgress /\ [][run]_vars

\* Payloads: a recognised prefix, or a near miss of one, then a few characters.
PayloadHeads ==
    { <<>>, WIFI, TEL, MAILTO, HTTP, HTTP_URL, HTTPS_URL,
      <<"w", "i", "f", "i", ":">>, <<"W", "I", "F", "I">>,
      <<"t", "e", "l", ":">>, <<"M", "A", "I", "L", "T", "O", ":">>,
      <<"H", "T", "T", "P">>, <<"h", "t", "t">>, <<"f", "t", "p", ":", "/", "/">> }
PayloadTails == SeqsUpTo({"a", ":", "/"}, MaxSuffix)
Payloads == {h \o t : h \in PayloadHeads, t \in PayloadTails} \ {<<>>}

\* One job, the worker alone, over every input file of Files and every
\* one-line file holding a payload of Payloads.
InitInput ==
    /\ fileLines \in Files \cup {<<p>> : p \in Payloads}
    /\ name_prefix \in Prefixes
    /\ Defaults
    /\ PaletteDefaults
    /\ FirstJobQueued

SpecInput == InitInput /\ [][run]_vars

\* The custom templates a templates file can hold: ids from 9 on, with
\* every kind of source (an empty source is never stored).
TemplateRecords ==
    {[id |-> id, name |-> "Mine", description |-> "", code |-> c] :
        id \in {9, 10}, c \in Sources \ {SrcEmpty}}

\* One job of one record, the worker alone, over every templates file of up
\* to MaxTemplates templates and a selected id that is built-in, stored or
\* unknown.
InitResolve ==
    /\ fileLines = <<TEL \o <<"1", "\n">>>>
    /\ name_prefix = "VPN"
    /\ Untouched
    /\ output_dir = "qr_results"
    /\ output_format = "PNG"
    /\ selected_template \in {1, 9, 10, 11}
    /\ custom_templates \in SeqsUpTo(TemplateRecords, MaxTemplates)
    /\ PaletteDefaults
    /\ FirstJobQueued

SpecResolve == InitResolve /\ [][run]_vars

\* ---------------------------------------------------------- card rendering
\* An image is its size and the layers pasted onto it, oldest first; a layer
\* is what was pasted, where its top-left corner went, and its size.
\* Gradients, shadows, overlays composited before the bitmap and the text
\* drawn after it change pixels only and are left out.
Image(size, layers) == [size |-> size, layers |-> layers]
paste(img, what, at, size) ==
    [img EXCEPT !.layers = Append(@, [what |-> what, at |-> at, size |-> size])]

\* Logo paths: none chosen, a path with no file, a file Image.open cannot
\* decode, and a decodable image.
NoLogo == ""
GoneLogo == "gone.png"
BrokenLogo == "broken.png"
GoodLogo == "logo.png"
LogoPaths == {NoLogo, GoneLogo, BrokenLogo, GoodLogo}
logo_exists(path) == path \in {BrokenLogo, GoodLogo}
Image_open(path) == IF path = GoodLogo THEN Logo(TRUE, <<>>) ELSE Unreadable

\* What a drawing call hands back: the exception that left it, and the image.
Drawn(raised, image) == [raised |-> raised, image |-> image]

\* add_rounded_logo without its except clause.
add_rounded_logo_NoExcept(base_img, logo_path, position, size) ==
    IF Image_open(logo_path).readable
    THEN Drawn("", paste(base_img, "logo", position, <<size, size>>))
    ELSE Drawn("OSError", base_img)

\* add_rounded_logo: the paste is the last statement of the try, and the bare
\* except swallows whatever is raised before it.
add_rounded_logo(base_img, logo_path, position, size) ==
    IF Image_open(logo_path).readable
    THEN Drawn("", paste(base_img, "logo", position, <<size, size>>))
    ELSE Drawn("", base_img)

\* The logo step of seven of the templates: a logo of the given size centred
\* on the bitmap, only for a path that is set and exists.
centred_logo(img, logo_path, qr_x, qr_y, qr_width, qr_height, size) ==
    IF logo_path # NoLogo /\ logo_exists(logo_path)
    THEN add_rounded_logo(img, logo_path,
                          <<qr_x + qr_width \div 2 - size \div 2,
                            qr_y + qr_height \div 2 - size \div 2>>, size)
    ELSE Drawn("", img)

card_modern_gradient(qr_width, qr_height, logo_path) ==
    LET card_width == qr_width + 180
        card_height == qr_height + 300
        qr_x == (card_width - qr_width) \div 2
        qr_y == 100
        final_img == paste(Image(<<card_width, card_height>>, <<>>), "qr",
                           <<qr_x, qr_y>>, <<qr_width, qr_height>>)
    IN  centred_logo(final_img, logo_path, qr_x, qr_y, qr_width, qr_height, 140)

card_glassmorphism(qr_width, qr_height, logo_path) ==
    LET card_width == qr_width + 160
        card_height == qr_height + 280
        qr_x == (card_width - qr_width) \div 2
        qr_y == 90
        final_img == paste(Image(<<card_width, card_height>>, <<>>), "qr",
                           <<qr_x, qr_y>>, <<qr_width, qr_height>>)
    IN  centred_logo(final_img, logo_path, qr_x, qr_y, qr_width, qr_height, 130)

card_neon_cyberpunk(qr_width, qr_height, logo_path) ==
    LET card_width == qr_width + 200
        card_height == qr_height + 320
        qr_x == (card_width - qr_width) \div 2
        qr_y == 120
        final_img == paste(Image(<<card_width, card_height>>, <<>>), "qr",
                           <<qr_x, qr_y>>, <<qr_width, qr_height>>)
    IN  centred_logo(final_img, logo_path, qr_x, qr_y, qr_width, qr_height, 150)

card_minimalist(qr_width, qr_height, logo_path) ==
    LET card_width == qr_width + 140
        card_height == qr_height + 260
        qr_x == (card_width - qr_width) \div 2
        qr_y == 100
        final_img == paste(Image(<<card_width, card_height>>, <<>>), "qr",
                           <<qr_x, qr_y>>, <<qr_width, qr_height>>)
    IN  centred_logo(final_img, logo_path, qr_x, qr_y, qr_width, qr_height, 120)

\* template_3d_card pastes a ring and a white disc itself before it calls
\* add_rounded_logo.
card_3d_card(qr_width, qr_height, logo_path) ==
    LET card_width == qr_width + 200
        card_height == qr_height + 340
        qr_x == (card_width - qr_width) \div 2
        qr_y == 120
        final_img == paste(Image(<<card_width, card_height>>, <<>>), "qr",
                           <<qr_x, qr_y>>, <<qr_width, qr_height>>)
        logo_size == 140
        logo_pos == <<qr_x + qr_width \div 2 - logo_size \div 2,
                      qr_y + qr_height \div 2 - logo_size \div 2>>
        ringed == paste(final_img, "ring", <<logo_pos[1] - 30, logo_pos[2] - 30>>,
                        <<logo_size + 60, logo_size + 60>>)
        backed == paste(ringed, "circle_bg", <<logo_pos[1] - 10, logo_pos[2] - 10>>,
                        <<logo_size + 20, logo_size + 20>>)
    IN  IF logo_path # NoLogo /\ logo_exists(logo_path)
        THEN add_rounded_logo(backed, logo_path, logo_pos, logo_size)
        ELSE Drawn("", final_img)

card_aurora_glow(qr_width, qr_height, logo_path) ==
    LET card_width == qr_width + 260
        card_height == qr_height + 360
        qr_box_width == qr_width + 100
        qr_box_height == qr_height + 100
        qr_box_x == (card_width - qr_box_width) \div 2
        qr_box_y == 120
        base == paste(Image(<<card_width, card_height>>, <<>>), "qr",
                      <<qr_box_x + 50, qr_box_y + 50>>, <<qr_width, qr_height>>)
    IN  IF logo_path # NoLogo /\ logo_exists(logo_path)
        THEN add_rounded_logo(base, logo_path,
                              <<qr_box_x + qr_box_width \div 2 - 70,
                                qr_box_y + qr_box_height \div 2 - 70>>, 140)
        ELSE Drawn("", base)

\* template_split_contrast with the bitmap centred on the whole card width
\* instead of on what the accent band leaves.
card_split_contrast_CentredOnCard(qr_width, qr_height, logo_path) ==
    LET accent_width == Max(200, qr_width \div 2)
        card_width == qr_width + accent_width + 220
        card_height == qr_height + 240
        qr_x == accent_width + (card_width - qr_width) \div 2
        qr_y == 100
        base == paste(Image(<<card_width, card_height>>, <<>>), "qr",
                      <<qr_x, qr_y>>, <<qr_width, qr_height>>)
    IN  centred_logo(base, logo_path, qr_x, qr_y, qr_width, qr_height, 120)

card_split_contrast(qr_width, qr_height, logo_path) ==
    LET accent_width == Max(200, qr_width \div 2)
        card_width == qr_width + accent_width + 220
        card_height == qr_height + 240
        qr_x == accent_width + (card_width - accent_width - qr_width) \div 2
        qr_y == 100
        base == paste(Image(<<card_width, card_height>>, <<>>), "qr",
                      <<qr_x, qr_y>>, <<qr_width, qr_height>>)
    IN  centred_logo(base, logo_path, qr_x, qr_y, qr_width, qr_height, 120)

card_sunrise_spotlight(qr_width, qr_height, logo_path) ==
    LET card_width == qr_width + 160
        card_height == qr_height + 220
        qr_x == (card_width - qr_width) \div 2
        qr_y == 90
        base == paste(Image(<<card_width, card_height>>, <<>>), "qr",
                      <<qr_x, qr_y>>, <<qr_width, qr_height>>)
    IN  centred_logo(base, logo_path, qr_x, qr_y, qr_width, qr_height, 120)

\* The built-in method behind Builtin(k).
card(k, qr_width, qr_height, logo_path) ==
    CASE k = 1 -> card_modern_gradient(qr_width, qr_height, logo_path)
      [] k = 2 -> card_glassmorphism(qr_width, qr_height, logo_path)
      [] k = 3 -> card_neon_cyberpunk(qr_width, qr_height, logo_path)
      [] k = 4 -> card_minimalist(qr_width, qr_height, logo_path)
      [] k = 5 -> card_3d_card(qr_width, qr_height, logo_path)
      [] k = 6 -> card_aurora_glow(qr_width, qr_height, logo_path)
      [] k = 7 -> card_split_contrast(qr_width, qr_height, logo_path)
      [] k = 8 -> card_sunrise_spotlight(qr_width, qr_height, logo_path)

\* One function looked at alone: no job, no setting changed, and the call c.
Alone(c) ==
    /\ fileLines = <<>>
    /\ input_file = ""
    /\ name_prefix = "VPN"
    /\ disk = {}
    /\ formatted = [d \in Dirs |-> <<>>]
    /\ history = <<>>
    /\ progress_bar = 0
    /\ dialog = ""
    /\ queue = <<>>
    /\ edits = 0
    /\ output_dir = "qr_results"
    /\ output_format = "PNG"
    /\ selected_template = 1
    /\ custom_templates = <<>>
    /\ PaletteDefaults
    /\ NoJob
    /\ call = c
Called(op, args) == Alone([op |-> op, args |-> args, result |-> <<>>, done |-> FALSE])
Returns(result) ==
    /\ ~call.done
    /\ call' = [call EXCEPT !.result = result, !.done = TRUE]
    /\ UNCHANGED <<env, palette, custom_templates, disk, formatted, settings, history,
                   generate_btn, progress_bar, dialog, workers, queue, job, edits>>

\* A document is loaded from each file of StoredFiles.
InitLoad ==
    \E document \in Documents, file \in StoredFiles :
        Called("load", <<document, file>>)
load_document == call.op = "load" /\ Returns(load(call.args[1], call.args[2]))
SpecLoad == InitLoad /\ [][load_document]_vars

\* Gradients between the colours of GradientColors, 1..MaxExtent scanlines
\* long and OtherSide across.
GradientColors ==
    { <<0, 0, 0>>, <<255, 255, 255>>, <<225, 225, 0>>, <<225, 225, 255>>, <<74, 0, 224>> }
OtherSide == 2
InitGradient ==
    \E n \in 1..MaxExtent, color1 \in GradientColors, color2 \in GradientColors :
        \/ Called("create_gradient", <<OtherSide, n, color1, color2, "vertical">>)
        \/ Called("create_gradient", <<n, OtherSide, color1, color2, "horizontal">>)
gradient ==
    /\ call.op = "create_gradient"
    /\ Returns(create_gradient(call.args[1], call.args[2], call.args[3], call.args[4],
                               call.args[5]))
SpecGradient == InitGradient /\ [][gradient]_vars

\* The extractor on every logo of 1..MaxPixels pixels of PixelColors, and on
\* an unreadable file.
PixelColors ==
    { <<250, 250, 250>>, <<10, 10, 10>>, <<100, 100, 100>>, <<120, 120, 120>>,
      <<30, 30, 200>>, <<200, 30, 30>> }
Logos == {Unreadable} \cup {Logo(TRUE, data) : data \in SeqsUpTo(PixelColors, MaxPixels) \ {<<>>}}
InitExtract ==
    \E logo \in Logos, num_colors \in 1..MaxColors :
        Called("extract_colors_from_logo", <<logo, num_colors>>)
extract ==
    /\ call.op = "extract_colors_from_logo"
    /\ Returns(extract_colors_from_logo(call.args[1], call.args[2]))
SpecExtract == InitExtract /\ [][extract]_vars

\* Each built-in template on bitmaps whose sides are among Sides, with each
\* kind of logo path; and add_rounded_logo alone on a canvas that already
\* holds a bitmap, at positions inside, across and outside the canvas.
MaxSide == 1000
Sides == {1, 2, 290, 401, 402, 442, MaxSide}
Canvases ==
    { paste(Image(<<w + 180, w + 300>>, <<>>), "qr", <<90, 100>>, <<w, w>>) : w \in {1, 290} }
LogoPositions == { <<0 - 200, 0 - 200>>, <<0 - 10, 5>>, <<0, 0>>, <<165, 175>>, <<2000, 2000>> }
LogoSizes == {120, 140}
InitRender ==
    \/ \E k \in 1..8, qr_width \in Sides, qr_height \in Sides, logo_path \in LogoPaths :
           Called("template", <<k, qr_width, qr_height, logo_path>>)
    \/ \E base_img \in Canvases, logo_path \in LogoPaths \ {NoLogo},
          position \in LogoPositions, size \in LogoSizes :
           Called("add_rounded_logo", <<base_img, logo_path, position, size>>)
render ==
    /\ call.op = "template"
    /\ Returns(card(call.args[1], call.args[2], call.args[3], call.args[4]))
round_logo ==
    /\ call.op = "add_rounded_logo"
    /\ Returns(add_rounded_logo(call.args[1], call.args[2], call.args[3], call.args[4]))
NextRender == render \/ round_logo
SpecRender == InitRender /\ [][NextRender]_vars

\* Jobs with the template dialogs open to the user throughout: nothing in
\* start_generation or in the dialogs' slots closes them during a job.
InitDialogsLive ==
    /\ fileLines = <<TEL \o <<"1", "\n">>>>
    /\ input_file = InputPath
    /\ name_prefix = "VPN"
    /\ Untouched
    /\ output_dir = "qr_results"
    /\ output_format = "PNG"
    /\ selected_template \in {1, 9}
    /\ custom_templates \in {<<>>, <<StoredTemplate>>}
    /\ PaletteDefaults
    /\ NoJob

NextDialogsLive ==
    \/ start_generation
    \/ update_progress
    \/ generation_finished
    \/ run
    \/ add_template_dialog
    \/ edit_template_dialog

SpecDialogsLive == InitDialogsLive /\ [][NextDialogsLive]_vars

\* detect_data_type on every payload of Payloads and on the empty string,
\* and then on its own result.
InitNormalize == \E data \in Payloads \cup {<<>>} : Called("detect_data_type", <<data>>)
normalize ==
    /\ call.op = "detect_data_type"
    /\ Returns(<<detect_data_type(call.args[1])>>)
normalize_again ==
    /\ call.op = "detect_data_type"
    /\ call.done
    /\ Len(call.result) = 1
    /\ call' = [call EXCEPT !.result = Append(@, detect_data_type(call.result[1]))]
    /\ UNCHANGED <<env, palette, custom_templates, disk, formatted, settings, history,
                   generate_btn, progress_bar, dialog, workers, queue, job, edits>>
NextNormalize == normalize \/ normalize_again
SpecNormalize == InitNormalize /\ [][NextNormalize]_vars

\* Jobs and the buttons of the History tab.
NextHistory ==
    \/ start_generation
    \/ update_progress
    \/ generation_finished
    \/ run
    \/ clear_history
    \/ export_history

SpecHistory == Init /\ [][NextHistory]_vars

\* The palettes a configuration file holds for theme_colors and custom_colors
\* (a JSON null is None, a colour a list of channels).
ThemePayloads ==
    { DefaultPalette,
      <<<<255, 94, 77, 255>>, None, <<237, 117, 57>>>>,
      <<<<0, 119, 190>>, <<0, 180, 216>>, <<144, 224, 239>>, <<0, 0, 0>>>> }
CustomPayloads ==
    { <<>>,
      <<<<1, 2, 3>>, None, <<7, 8, 9>>>>,
      <<<<1, 2, 3>>, <<4, 5, 6>>, <<7, 8, 9>>>> }

\* The window comes up: the colour buttons are built from custom_colors[i]
\* or theme_colors[i], i in range(3), without IndexError.
StartsUp(cust, theme) == FillStop(cust, theme) = 4 /\ Len(cust) >= 3

\* The presets file holds one preset, saved in an earlier session.
StoredPreset ==
    [theme_colors |-> 3, custom_colors |-> 4, use_custom_colors |-> TRUE,
     name_prefix |-> "QR", selected_template |-> 4, output_format |-> "JPG"]

\* The state after __init__ with a configuration file: apply_config_payload
\* normalises the two palettes, setup_ui ends with
\* toggle_custom_colors(self.use_custom_colors); load_presets.
InitPalette ==
    /\ fileLines = [j \in 1..2 |-> TEL \o <<"1", "\n">>]
    /\ input_file = InputPath
    /\ name_prefix = "VPN"
    /\ Defaults
    /\ \E t \in ThemePayloads, c \in CustomPayloads, u \in BOOLEAN :
          LET theme == normalize_palette(t, FALSE)
              cust == normalize_palette(c, TRUE)
              loaded == <<theme, cust, theme_presets["Sunset"],
                          <<<<9, 9, 9>>, <<8, 8, 8>>, <<7, 7, 7>>>>>>
          IN  /\ StartsUp(cust, theme)
              /\ heap = IF u THEN FillCustom(loaded, 2, 1) ELSE loaded
              /\ use_custom_colors = u
    /\ theme_colors = 1
    /\ custom_colors = 2
    /\ presets = <<StoredPreset>>
    /\ NoJob

NextPalette ==
    \/ start_generation
    \/ update_progress
    \/ generation_finished
    \/ run
    \/ toggle_custom_colors
    \/ choose_color
    \/ on_theme_preset_changed
    \/ save_preset_dialog
    \/ apply_preset
    \/ name_prefix_changed

SpecPalette == InitPalette /\ [][NextPalette]_vars

\* The template dialogs, with no job under way: the templates file is
\* missing or holds the one stored template.
InitTemplates ==
    /\ fileLines = <<>>
    /\ input_file = ""
    /\ name_prefix = "VPN"
    /\ Untouched
    /\ output_dir = "qr_results"
    /\ output_format = "PNG"
    /\ selected_template \in {1, 6, 9}
    /\ custom_templates \in {<<>>, <<StoredTemplate>>}
    /\ PaletteDefaults
    /\ NoJob

\* The template dialogs over the templates files of up to MaxTemplates
\* templates with distinct ids, in any order.
StoredIds == {9, 12}
DistinctTables ==
    {t \in SeqsUpTo({[id |-> id, name |-> "Mine", description |-> "", code |-> SrcFunction] :
                        id \in StoredIds}, MaxTemplates) :
        \A i, j \in 1..Len(t) : i # j => t[i].id # t[j].id}
InitStored ==
    /\ fileLines = <<>>
    /\ input_file = ""
    /\ name_prefix = "VPN"
    /\ Untouched
    /\ output_dir = "qr_results"
    /\ output_format = "PNG"
    /\ selected_template \in {1} \cup StoredIds
    /\ custom_templates \in DistinctTables
    /\ PaletteDefaults
    /\ NoJob

NextTemplates ==
    \/ add_template_dialog
    \/ edit_template_dialog

SpecTemplates == InitTemplates /\ [][NextTemplates]_vars
SpecStored == InitStored /\ [][NextTemplates]_vars

\* ------------------------------------------------------------------ claims
Trace(w) == workers[w].trace
Positions(w, op) == {p \in 1..Len(Trace(w)) : Trace(w)[p].op = op}

NonBlank(line) == \E j \in 1..Len(line) : line[j] \notin Whitespace
NonBlankLines == {j \in 1..Len(fileLines) : NonBlank(fileLines[j])}
RecordCount == Cardinality(NonBlankLines)
InputHasRecords(path) == path # "" /\ exists(path) /\ NonBlankLines # {}

\* The worker has finished and its completion is not delivered yet.
JustDone(w) == workers[w].pc = "done" /\ workers[w].delivered = 0

\* C1: a generation requested on an input that is missing or holds no
\* record is rejected: no worker is created for it, and nothing is written,
\* recorded in the history or reported as a success.
C1_InvalidInputRejected ==
    /\ \A w \in Workers :
          workers[w].started_with # "" => InputHasRecords(workers[w].started_with)
    /\ ~InputHasRecords(InputPath) =>
          /\ job = 0
          /\ history = <<>>
          /\ disk = {}
          /\ \A i \in 1..Len(queue) : ~queue[i].success

\* The positions in the queue of the finished signals of worker w.
FinishedInQueue(w) ==
    {i \in 1..Len(queue) : queue[i].from = w /\ queue[i].kind = "finished"}
\* The finished signal of a worker is unique and is the last thing it emits.
C2_Safety ==
    \A w \in Workers :
        /\ Cardinality(FinishedInQueue(w)) + workers[w].delivered <= 1
        /\ workers[w].pc = "done" =>
              Cardinality(FinishedInQueue(w)) + workers[w].delivered = 1
        /\ \A i \in FinishedInQueue(w) : \A j \in 1..Len(queue) :
              queue[j].from = w => j <= i
        /\ workers[w].delivered = 1 => \A j \in 1..Len(queue) : queue[j].from # w
        /\ \A p \in Positions(w, "finished") : p = Len(Trace(w))
\* C2: a worker emits finished at most once, emits nothing after it, has
\* emitted it exactly once when run() has returned, and every queued worker
\* eventually has its one completion delivered.
C2_OneCompletion ==
    /\ []C2_Safety
    /\ \A w \in Workers : (workers[w].pc = "queued") ~> (workers[w].delivered = 1)
C2_Witness ==
    \E w \in Workers : workers[w].delivered = 1 /\ workers[w].result = "failed"

\* C3: a finished job has appended a history record exactly when no step
\* raised and every record got its progress; the record holds the number of
\* records of the input and the directory the job wrote to; the history
\* holds one record per successful job.
C3_HistoryIffSuccess ==
    /\ Len(history) = Cardinality({w \in Workers : workers[w].result = "ok"})
    /\ \A w \in Workers :
          JustDone(w) =>
             LET me == workers[w]
                 processed ==
                    /\ Positions(w, "raise") = {}
                    /\ \A i \in 1..RecordCount :
                          \E p \in Positions(w, "progress") : Trace(w)[p].index = i
             IN  /\ (me.result = "ok") <=> processed
                 /\ (me.result = "ok") <=> (Cardinality(Positions(w, "history")) = 1)
                 /\ me.result = "failed" => Positions(w, "history") = {}
                 /\ me.result = "ok" =>
                       /\ history[Len(history)].count = RecordCount
                       /\ history[Len(history)].output_dir = me.output_dir
C3_Witness ==
    \E w \in Workers :
        /\ JustDone(w)
        /\ workers[w].result = "ok"
        /\ workers[w].total >= 2
        /\ output_dir # workers[w].output_dir

\* C4: once a step has raised at record k the run only reports the failure,
\* with that error's text; no record after k is encoded, rendered or
\* written; and every card file the run wrote is still on disk.
C4_AbortOnFirstError ==
    \A w \in Workers :
        /\ \A p \in Positions(w, "write") : Trace(w)[p].s \in disk
        /\ \A p \in Positions(w, "raise") :
              LET k == Trace(w)[p].index
                  text == "(cross mark) Failed to generate QR codes:\n" \o Trace(w)[p].s
              IN  /\ \A q \in 1..Len(Trace(w)) :
                        Trace(w)[q].op \in {"encode", "render", "write", "progress"}
                            => (q < p /\ Trace(w)[q].index <= k)
                  /\ workers[w].result # "ok"
                  /\ JustDone(w) =>
                        \E i \in FinishedInQueue(w) :
                            ~queue[i].success /\ queue[i].message = text
C4_Witness ==
    \E w \in Workers :
        /\ JustDone(w)
        /\ \E p \in Positions(w, "raise") : Trace(w)[p].index = 2
        /\ \E p \in Positions(w, "write") : Trace(w)[p].index = 1 /\ Trace(w)[p].s \in disk

\* C5: the progress emitted after record index of total is exactly
\* floor(index * 100 / total).
C5_ProgressIsFloor ==
    \A w \in Workers : \A p \in Positions(w, "progress") :
        Trace(w)[p].index >= 1 =>
            Trace(w)[p].n = (Trace(w)[p].index * 100) \div workers[w].total

\* C6: the values a run emits on the progress channel lie in 0..100 and
\* never decrease.
C6_ProgressMonotone ==
    \A w \in Workers : \A p \in Positions(w, "progress") :
        /\ Trace(w)[p].n \in 0..100
        /\ \A q \in Positions(w, "progress") : q < p => Trace(w)[q].n <= Trace(w)[p].n
C6_Witness ==
    \E w \in Workers :
        /\ workers[w].result = "ok"
        /\ workers[w].total >= 50
        /\ \E p \in Positions(w, "progress") : Trace(w)[p].n = 100

\* The span of a non-blank line from its first to its last inked character.
Trimmed(line) ==
    LET inked == {j \in 1..Len(line) : line[j] \notin Whitespace}
        first == CHOOSE j \in inked : \A i \in inked : j <= i
        last == CHOOSE j \in inked : \A i \in inked : i <= j
    IN  SubSeq(line, first, last)
\* The position among the non-blank lines of line j.
Rank(j) == Cardinality({i \in NonBlankLines : i <= j})
\* C7: the records are the non-blank input lines, each cut down to the span
\* from its first to its last non-whitespace character, in file order; total
\* counts them; the i-th record is labelled prefix, a space, i.
C7_RecordsAndLabels ==
    \A w \in Workers :
        workers[w].pc \notin {"idle", "queued"} =>
            /\ workers[w].total = RecordCount
            /\ Len(workers[w].links) = RecordCount
            /\ \A j \in NonBlankLines : workers[w].links[Rank(j)] = Trimmed(fileLines[j])
            /\ \A p \in Positions(w, "encode") :
                  /\ Trace(w)[p].index = Cardinality({q \in Positions(w, "encode") : q <= p})
                  /\ Trace(w)[p].s = name_prefix \o " " \o Digits[Trace(w)[p].index + 1]
C7_Witness ==
    \E w \in Workers :
        /\ workers[w].result = "ok"
        /\ Len(fileLines) > workers[w].total
        /\ workers[w].links = << <<"a", " ", "b">> >>
        /\ name_prefix = "QR"
        /\ \E p \in Positions(w, "encode") : Trace(w)[p].s = "QR 1"

\* The record begins with one of the four prefixes.
Recognised(rec) ==
    \E pre \in {WIFI, TEL, MAILTO, HTTP} :
        /\ Len(rec) >= Len(pre)
        /\ \A j \in 1..Len(pre) : rec[j] = pre[j]
\* C8: the payload handed to the encoder is the record itself when the
\* record begins with WIFI:, TEL:, mailto: or http, and https:// followed by
\* the record otherwise.
C8_PayloadNormalised ==
    \A w \in Workers : \A p \in Positions(w, "encode") :
        LET rec == workers[w].links[Trace(w)[p].index]
        IN  Trace(w)[p].d = IF Recognised(rec) THEN rec
                            ELSE <<"h", "t", "t", "p", "s", ":", "/", "/">> \o rec
C8_Witness ==
    \E w \in Workers : \E p \in Positions(w, "encode") :
        /\ workers[w].links = << <<"t", "e", "l", ":", "a">> >>
        /\ Trace(w)[p].d = <<"h", "t", "t", "p", "s", ":", "/", "/", "t", "e", "l", ":", "a">>

\* C9: whatever format is selected, a record's progress is emitted only
\* after its card file has been written, so a run that reports success has
\* written one card file per record.
C9_CardWrittenBeforeProgress ==
    \A w \in Workers : \A p \in Positions(w, "progress") :
        Trace(w)[p].index >= 1 =>
            \E q \in Positions(w, "write") :
                /\ q < p
                /\ Trace(w)[q].index = Trace(w)[p].index
                /\ Trace(w)[q].s \in disk

\* Worker w is created and its completion is not delivered.
Active(w) == workers[w].pc # "idle" /\ workers[w].delivered = 0
\* C10: at most one worker is between its creation and the delivery of its
\* completion.
C10_SingleWorker == Cardinality({w \in Workers : Active(w)}) <= 1
C10_Witness ==
    /\ job = 2
    /\ workers[2].pc = "queued"
    /\ workers[1].delivered = 1

\* C12: a record's temporary bitmap exists only between its creation and
\* the finally block of the same record: none exists when the next record
\* starts, when the except block is entered, or once the completion has been
\* emitted, whichever step raised.
C12_TempReleased ==
    \A w \in Workers :
        /\ workers[w].pc \in {"idle", "queued", "loop", "except", "done"} => ~workers[w].temp_qr
        /\ FinishedInQueue(w) # {} => ~workers[w].temp_qr
C12_Witness ==
    \E w \in Workers :
        /\ JustDone(w)
        /\ ~workers[w].temp_qr
        /\ \E p \in Positions(w, "write") : Trace(w)[p].index = 1
        /\ \E p \in Positions(w, "raise") :
              Trace(w)[p].index = 2 /\ Trace(w)[p].s = RenderError

\* The source cannot give a template function: it does not evaluate, or
\* leaves no template_custom behind.
Unusable(code) == code.raises # "" \/ "template_custom" \notin DOMAIN code.binds
\* The stored templates with the selected id.
Matching == {j \in 1..Len(custom_templates) : custom_templates[j].id = selected_template}
\* C14: with a selected id outside 1..8 that matches no stored template, or
\* whose stored source does not evaluate or does not define template_custom,
\* the job renders with built-in variant 1; and no resolution raises: no job
\* fails before its first record.
C14_FallbackToVariant1 ==
    \A w \in Workers :
        workers[w].pc \notin {"idle", "queued"} =>
            /\ \A p \in Positions(w, "raise") : Trace(w)[p].index >= 1
            /\ Positions(w, "start") # {}
            /\ (/\ selected_template \notin 1..8
                /\ \/ Matching = {}
                   \/ Unusable(custom_templates[CHOOSE j \in Matching :
                                                   \A i \in Matching : j <= i].code))
               => /\ workers[w].template_func = [kind |-> "builtin", id |-> 1]
                  /\ \A p \in Positions(w, "render") :
                        Trace(w)[p].d[1] = [kind |-> "builtin", id |-> 1]
C14_Witness ==
    \E w \in Workers :
        /\ workers[w].result = "ok"
        /\ selected_template = 10
        /\ Len(custom_templates) = 2
        /\ custom_templates[1].id = 10
        /\ custom_templates[1].code.raises = "SystemExit"
        /\ custom_templates[2].id = 10
        /\ ~Unusable(custom_templates[2].code)
        /\ \E p \in Positions(w, "render") : Trace(w)[p].d[1] = [kind |-> "builtin", id |-> 1]

\* The source evaluates and leaves a function named template_custom.
ProducesFunction(code) ==
    /\ code.raises = ""
    /\ "template_custom" \in DOMAIN code.binds
    /\ code.binds["template_custom"] = "function"
\* The message boxes of a rejected definition.
ValidationErrors ==
    {"Please enter template name and code",
     "Template function must be named 'template_custom'"}
        \cup {"Invalid template code: " \o e : e \in {"SyntaxError", "ValueError", "SystemExit"}}
\* C13: a template dialog submitted with a source that does not evaluate, or
\* that evaluates without leaving a function template_custom, shows a
\* validation error and leaves the custom template list as it was.
C13_InvalidSourceRejected ==
    [][(/\ edits' = edits + 1
        /\ call'.op \in {"add_template_dialog", "edit_template_dialog"}
        /\ ~ProducesFunction(call'.args[2]))
       => (custom_templates' = custom_templates /\ dialog' \in ValidationErrors)]_vars

\* The start event of worker w: the settings run() read before the loop.
Started(w) == Trace(w)[CHOOSE p \in Positions(w, "start") : TRUE]
\* C11: every record of a job is labelled with the name prefix, and rendered
\* with the template function and the colours, that the settings held when
\* run() read them before its loop, whatever the foreground changes meanwhile.
C11_SettingsSnapshotted ==
    \A w \in Workers :
        Positions(w, "start") # {} =>
            /\ \A p \in Positions(w, "encode") :
                  Trace(w)[p].s = Started(w).s \o " " \o Str(Trace(w)[p].index)
            /\ \A p \in Positions(w, "render") : Trace(w)[p].d = Started(w).d

\* C20: every palette handed to a render call has exactly 3 entries, none
\* of them None.
C20_PaletteWellFormed ==
    \A w \in Workers : \A p \in Positions(w, "render") :
        /\ Len(Trace(w)[p].d[2]) = 3
        /\ \A i \in 1..Len(Trace(w)[p].d[2]) : Trace(w)[p].d[2][i] # <<>>

\* old is an initial part of new: every record kept, in place, unchanged.
IsPrefix(old, new) == Len(old) <= Len(new) /\ SubSeq(new, 1, Len(old)) = old

Corrupt(file) == file # Missing /\ (decode(file).raised # "" \/ loads(decode(file).text).raised # "")

\* C19: loading a document whose file is missing or corrupt returns the
\* document's empty default ({} for config, [] for the others) and raises
\* nothing.
C19_LoadGivesDefault ==
    (call.op = "load" /\ call.done
        /\ (call.args[2] = Missing \/ Corrupt(call.args[2])))
    => call.result = [raised |-> "", value |-> EmptyDefault(call.args[1])]

\* The channels in which two colours differ.
Differing(a, b) == {c \in 1..3 : a[c] # b[c]}
\* Channel c never falls, or never rises, from one scanline to the next.
Monotonic(lines, c) ==
    \/ \A k \in 1..(Len(lines) - 1) : lines[k][c] <= lines[k + 1][c]
    \/ \A k \in 1..(Len(lines) - 1) : lines[k][c] >= lines[k + 1][c]

\* C17: a gradient of n >= 1 scanlines from colorA to colorB has colorA as
\* its first scanline and colorB as its last, and when the colours differ
\* in one channel only that channel is monotonic across the scanlines.
C17_GradientEndpoints ==
    (call.op = "create_gradient" /\ call.done) =>
        LET lines == call.result.lines
            colorA == call.args[3]
            colorB == call.args[4]
        IN  /\ lines[1] = colorA
            /\ lines[Len(lines)] = colorB
            /\ \A c \in 1..3 : Differing(colorA, colorB) = {c} => Monotonic(lines, c)

\* The extractor has returned for a logo that could be read.
Extracted == call.op = "extract_colors_from_logo" /\ call.done /\ call.args[1].readable

\* C15: the palette the extractor returns has exactly k entries, and any
\* two of its entries (padding included) are more than 80 apart in summed
\* channel distance.
C15_PaletteDistinct ==
    Extracted =>
        /\ Len(call.result) = call.args[2]
        /\ \A i, j \in 1..Len(call.result) :
              i # j => Distance(call.result[i], call.result[j]) > 80

\* C16: for a logo whose pixels are all near white the extractor returns
\* the default palette [(26,35,126), (74,0,224), (138,43,226)].
C16_AllWhiteGivesDefault ==
    (Extracted /\ \A i \in 1..Len(call.args[1].data) :
                    \A c \in 1..3 : call.args[1].data[i][c] > 240)
    => call.result = <<<<26, 35, 126>>, <<74, 0, 224>>, <<138, 43, 226>>>>

\* Worker w is between start_generation and the end of its run().
Running(w) == workers[w].pc \notin {"idle", "done"}

\* C21: the list of custom templates is not added to or edited while a job
\* is running: a step that changes it starts in a state with no running job.
C21_NoTemplateEditWhileRunning ==
    [][custom_templates' # custom_templates => \A w \in Workers : ~Running(w)]_vars

\* The ids of the stored custom templates, in list order.
Ids(templates) == [j \in 1..Len(templates) |-> templates[j].id]

\* C24: every stored custom template has an id above 8; no step removes a
\* template or changes the id of one; and a step that changes a stored
\* template is made with a selected id above 8, the id of that template.
C24_TemplateLifecycle ==
    /\ [](\A j \in 1..Len(custom_templates) : custom_templates[j].id > 8)
    /\ [][/\ IsPrefix(Ids(custom_templates), Ids(custom_templates'))
          /\ \A j \in 1..Len(custom_templates) :
                custom_templates'[j] # custom_templates[j] =>
                    selected_template > 8 /\ custom_templates[j].id = selected_template]_vars

\* A template has been added next to the stored one, and the stored one
\* has then been edited.
C24_Witness ==
    /\ Len(custom_templates) = 2
    /\ custom_templates[2].id = 10
    /\ custom_templates[1] # StoredTemplate
    /\ call.op = "edit_template_dialog"
    /\ dialog = "Template updated successfully!"

\* C27: the ids of the stored custom templates are pairwise distinct, and
\* a template that is added gets the greatest id so far plus one, or 9 when
\* the list was empty.
C27_IdsDistinct ==
    /\ [](\A i, j \in 1..Len(custom_templates) :
            i # j => custom_templates[i].id # custom_templates[j].id)
    /\ [][Len(custom_templates') > Len(custom_templates) =>
            /\ Len(custom_templates') = Len(custom_templates) + 1
            /\ custom_templates'[Len(custom_templates')].id =
                  IF custom_templates = <<>> THEN 9
                  ELSE 1 + CHOOSE m \in {custom_templates[j].id : j \in 1..Len(custom_templates)} :
                            \A j \in 1..Len(custom_templates) : custom_templates[j].id <= m]_vars

\* Two templates have been added after the stored ones 12 and 9.
C27_Witness ==
    /\ Len(custom_templates) = 4
    /\ Ids(custom_templates) = <<12, 9, 13, 14>>

\* C28: detect_data_type applied to its own result gives that result
\* again, and the result starts with WIFI:, TEL:, mailto: or http.
C28_NormalizeIdempotent ==
    (call.op = "detect_data_type" /\ call.done) =>
        /\ \/ startswith(call.result[1], WIFI)
           \/ startswith(call.result[1], TEL)
           \/ startswith(call.result[1], MAILTO)
           \/ startswith(call.result[1], HTTP)
        /\ Len(call.result) = 2 => call.result[2] = call.result[1]

\* A payload without a known prefix has been normalised twice.
C28_Witness ==
    /\ call.op = "detect_data_type"
    /\ call.args[1] = <<"f", "t", "p", ":", "/", "/", "a">>
    /\ Len(call.result) = 2
    /\ call.result[1] = HTTPS_URL \o call.args[1]

\* The per-record steps of worker w, as positions of its trace, and the
\* j-th of them.
StepOps == <<"encode", "render", "write", "progress">>
RecordSteps(w) ==
    {p \in 1..Len(Trace(w)) :
        Trace(w)[p].index >= 1 /\ \E k \in 1..4 : Trace(w)[p].op = StepOps[k]}
NthStep(w, j) ==
    CHOOSE p \in RecordSteps(w) : Cardinality({q \in RecordSteps(w) : q < p}) = j - 1

\* C25: the per-record steps of a job come in the order encode, render,
\* persist, progress for record 1, then the same for record 2, and so on
\* (a failing step ends the series); and the settings are resolved before
\* the first record is encoded.
C25_StepsInSequence ==
    \A w \in Workers :
        /\ \A j \in 1..Cardinality(RecordSteps(w)) :
              /\ Trace(w)[NthStep(w, j)].op = StepOps[((j - 1) % 4) + 1]
              /\ Trace(w)[NthStep(w, j)].index = ((j - 1) \div 4) + 1
        /\ \A p \in Positions(w, "encode") : \E q \in Positions(w, "start") : q < p

\* Both records of a two-record job have gone through their four steps.
C25_Witness ==
    \E w \in Workers :
        /\ workers[w].total = 2
        /\ Cardinality(RecordSteps(w)) = 8
        /\ workers[w].pc = "done"

\* The entries formatted_links.txt holds for the job of worker w.
Listed(w) == formatted[workers[w].output_dir]

\* C29: a job that has reached its record loop has made formatted_links.txt
\* anew in its output directory, with one entry (label, record as read) for
\* each record whose encoding has been started: the entries of records 1..k
\* after a failure at record k, of all records after a success.
C29_FormattedLinks ==
    \A w \in Workers :
        Positions(w, "start") # {} =>
            /\ Len(Listed(w)) = Cardinality(Positions(w, "encode"))
            /\ \A i \in 1..Len(Listed(w)) :
                  Listed(w)[i] = [label |-> Started(w).s \o " " \o Str(i),
                                  link |-> workers[w].links[i]]
            /\ \A p \in Positions(w, "raise") : Len(Listed(w)) = Trace(w)[p].index
            /\ workers[w].result = "ok" => Len(Listed(w)) = workers[w].total

\* A job whose second record, a payload that normalisation changes, failed.
C29_Witness ==
    \E w \in Workers :
        /\ workers[w].result = "failed"
        /\ Len(Listed(w)) = 2
        /\ detect_data_type(Listed(w)[2].link) # Listed(w)[2].link

\* The last progress event of worker w.
LastProgress(w) ==
    Trace(w)[CHOOSE p \in Positions(w, "progress") : \A q \in Positions(w, "progress") : q <= p]

\* C30: when a job of one record or more reports success, the last progress
\* value it emitted is 100; when it reports a failure at record k, the last
\* progress it emitted is that of record k - 1 (0 when k = 1).
C30_LastProgress ==
    \A w \in Workers :
        Positions(w, "finished") # {} =>
            /\ (workers[w].result = "ok" /\ workers[w].total >= 1) => LastProgress(w).n = 100
            /\ \A p \in Positions(w, "raise") :
                  Trace(w)[p].index >= 1 =>
                      /\ LastProgress(w).index = Trace(w)[p].index - 1
                      /\ LastProgress(w).n = Progress(Trace(w)[p].index - 1, workers[w].total)

\* A job of seven records has reported a failure at its third record, after
\* the progress value 28 of the second.
C30_Witness ==
    \E w \in Workers :
        /\ Positions(w, "finished") # {}
        /\ workers[w].total = 7
        /\ workers[w].result = "failed"
        /\ \E p \in Positions(w, "raise") : Trace(w)[p].index = 3
        /\ LastProgress(w).n = 28

\* The size template k gives a card for a w x h bitmap: the bitmap's size
\* plus the template's margins, and for the split template its accent band.
CardSize(k, w, h) ==
    CASE k = 1 -> <<w + 180, h + 300>>
      [] k = 2 -> <<w + 160, h + 280>>
      [] k = 3 -> <<w + 200, h + 320>>
      [] k = 4 -> <<w + 140, h + 260>>
      [] k = 5 -> <<w + 200, h + 340>>
      [] k = 6 -> <<w + 260, h + 360>>
      [] k = 7 -> <<w + (IF w \div 2 > 200 THEN w \div 2 ELSE 200) + 220, h + 240>>
      [] k = 8 -> <<w + 160, h + 220>>
LayersOf(img, what) == {j \in 1..Len(img.layers) : img.layers[j].what = what}
Inside(layer, size) ==
    /\ 0 <= layer.at[1] /\ layer.at[1] + layer.size[1] <= size[1]
    /\ 0 <= layer.at[2] /\ layer.at[2] + layer.size[2] <= size[2]

C22_LogoFailureAbsorbed ==
    /\ (call.done /\ call.op = "add_rounded_logo") =>
           /\ call.result.raised = ""
           /\ ~Image_open(call.args[2]).readable => call.result.image = call.args[1]
    /\ (call.done /\ call.op = "template") =>
           /\ call.result.raised = ""
           /\ ~Image_open(call.args[4]).readable =>
                  LayersOf(call.result.image, "logo") = {}
           /\ call.args[4] = GoneLogo =>
                  call.result = card(call.args[1], call.args[2], call.args[3], NoLogo)

\* A template has returned a card for a logo file that exists and cannot be
\* decoded.
C22_Witness ==
    /\ call.done /\ call.op = "template"
    /\ call.args[4] = BrokenLogo
    /\ call.result.raised = ""
    /\ Len(call.result.image.layers) >= 1

\* The names of the card files worker w saved, and the counts of the history
\* records it appended.
Written(w) == {Trace(w)[p].s : p \in Positions(w, "write")}
HistoryCounts(w) == {Trace(w)[p].n : p \in Positions(w, "history")}
\* Where the history record of a job that ran to the end is: jobs run one
\* after the other, and each that ran to the end appended one record.
HistoryIndex(w) == Cardinality({v \in Workers : v <= w /\ workers[v].result = "ok"})

\* C23: once a job has run to the end, a later job on the same input and
\* settings saves no card under a name the first did not use; and when the
\* later job has run to the end too, it has saved every card the first
\* saved, and both appended one history record, of the same count.
C23_BatchDeterminism ==
    /\ [](\A a \in Workers, b \in Workers :
            (a < b /\ workers[a].result = "ok" /\ workers[b].result = "ok"
                   /\ Trace(b) # <<>>) =>
                /\ Written(b) = disk
                /\ Cardinality(HistoryCounts(b)) = 1
                /\ Len(history) = HistoryIndex(b)
                /\ history[HistoryIndex(a)].count = history[HistoryIndex(b)].count
                /\ HistoryCounts(b) = {history[HistoryIndex(a)].count})
    /\ [][(\E a \in Workers : workers[a].result = "ok") => disk' = disk]_vars

\* Two jobs have run to the end on a file of two records and saved the
\* cards of the stored custom template.
C23_Witness ==
    /\ workers[1].result = "ok" /\ workers[2].result = "ok"
    /\ selected_template = 9
    /\ name_prefix = "QR"
    /\ Cardinality(Written(2)) = 2
    /\ Written(2) = disk
    /\ Len(history) = 2

====
